---- MODULE Spec2Model ----
(***************************************************************************)
(* Model of the transaction extraction and classification engine of        *)
(* ambolt-studio/pdf-parser: parsers/base.py, parsers/common.py,           *)
(* parsers/chase.py, parsers/bofa.py, parsers/truist.py,                   *)
(* parsers/__init__.py and the /parse endpoint of app.py.                  *)
(*                                                                         *)
(* Text is modelled as TLA+ strings and every regular expression of the    *)
(* source is an operator that scans the characters as the regex engine     *)
(* does.  Amounts are integers counted in cents (the source's floats all   *)
(* come from tokens with at most two decimals).  An optional float is a    *)
(* sequence: <<>> is None and <<v>> is the value v.  An optional string    *)
(* (date, section, direction) is the string None.                          *)
(***************************************************************************)
EXTENDS Integers, Sequences, FiniteSets, TLC

None == "None"

NoneF == <<>>

Some(v) == <<v>>

(***************************************************************************)
(* Characters and strings                                                  *)
(***************************************************************************)
Ch(s, i) == IF i >= 1 /\ i <= Len(s) THEN SubSeq(s, i, i) ELSE ""

Digits == {"0", "1", "2", "3", "4", "5", "6", "7", "8", "9"}

UpperChars == "ABCDEFGHIJKLMNOPQRSTUVWXYZÁÉÍÓÚÑÃ"

LowerChars == "abcdefghijklmnopqrstuvwxyzáéíóúñã"

UpperSet == {SubSeq(UpperChars, i, i) : i \in 1..Len(UpperChars)}

LowerSet == {SubSeq(LowerChars, i, i) : i \in 1..Len(LowerChars)}

LowerOf == [c \in UpperSet |-> SubSeq(LowerChars, CHOOSE i \in 1..Len(UpperChars) : SubSeq(UpperChars, i, i) = c, CHOOSE i \in 1..Len(UpperChars) : SubSeq(UpperChars, i, i) = c)]

UpperOf == [c \in LowerSet |-> SubSeq(UpperChars, CHOOSE i \in 1..Len(LowerChars) : SubSeq(LowerChars, i, i) = c, CHOOSE i \in 1..Len(LowerChars) : SubSeq(LowerChars, i, i) = c)]

\* \s of the regex engine
WS == {" ", "\t", "\n", "\r"}

\* \w of the regex engine: letters, digits and the underscore
IsWordChar(c) == c \in Digits \/ c \in UpperSet \/ c \in LowerSet \/ c = "_"

IsDigit(c) == c \in Digits

IsAlpha(c) == c \in UpperSet \/ c \in LowerSet

LowerChar(c) == IF c \in UpperSet THEN LowerOf[c] ELSE c

UpperChar(c) == IF c \in LowerSet THEN UpperOf[c] ELSE c

RECURSIVE MapChars(_, _)
\* the string with every character c replaced by F(c); the text is halved at
\* each level to keep the evaluation shallow
MapChars(F(_), s) ==
  IF Len(s) = 0 THEN ""
  ELSE IF Len(s) = 1 THEN F(s)
  ELSE MapChars(F, SubSeq(s, 1, Len(s) \div 2)) \o MapChars(F, SubSeq(s, Len(s) \div 2 + 1, Len(s)))

\* str.lower()
Lower(s) == MapChars(LowerChar, s)

\* str.upper()
Upper(s) == MapChars(UpperChar, s)

\* the first position j in i..n with P(j), 0 when there is none
FirstPos(P(_), i, n) ==
  LET Least(S) == IF S = {} THEN 0 ELSE CHOOSE j \in S : \A k \in S : j <= k
  IN Least({j \in i..n : P(j)})

\* number of \s characters from position i on
RECURSIVE WsRun(_, _)
WsRun(s, i) == IF Ch(s, i) \in WS THEN 1 + WsRun(s, i + 1) ELSE 0

\* number of \d characters from position i on, at most max
RECURSIVE DigitRun(_, _, _)
DigitRun(s, i, max) == IF max > 0 /\ IsDigit(Ch(s, i)) THEN 1 + DigitRun(s, i + 1, max - 1) ELSE 0

RECURSIVE LStrip(_)
LStrip(s) == IF s # "" /\ Head(s) \in WS THEN LStrip(Tail(s)) ELSE s

RECURSIVE RStrip(_)
RStrip(s) == IF s # "" /\ Ch(s, Len(s)) \in WS THEN RStrip(SubSeq(s, 1, Len(s) - 1)) ELSE s

\* str.strip()
Strip(s) == LStrip(RStrip(s))

\* the literal p occurs in s at position i
MatchAt(s, i, p) == i >= 1 /\ i + Len(p) - 1 <= Len(s) /\ SubSeq(s, i, i + Len(p) - 1) = p

\* str.startswith
StartsWith(s, p) == MatchAt(s, 1, p)

\* str.endswith
EndsWith(s, p) == Len(p) <= Len(s) /\ MatchAt(s, Len(s) - Len(p) + 1, p)

\* p in s
Contains(s, p) == \E i \in 1..(Len(s) - Len(p) + 1) : MatchAt(s, i, p)

\* \b of the regex engine, between the characters i-1 and i
WordBoundary(s, i) == IsWordChar(Ch(s, i - 1)) # IsWordChar(Ch(s, i))

\* a chain of str.replace(c, "") for the characters c of cs
RemoveChars(s, cs) == MapChars(LAMBDA c : IF c \in cs THEN "" ELSE c, s)

RECURSIVE JoinSp(_)
\* " ".join(list)
JoinSp(ss) ==
  IF ss = <<>> THEN ""
  ELSE IF Len(ss) = 1 THEN ss[1]
  ELSE ss[1] \o " " \o JoinSp(Tail(ss))

RECURSIVE CollapseWs(_, _)
\* re.sub(r"\s+", " ", s), scanning from position i
CollapseWs(s, i) ==
  LET From(j) == IF j = 0 THEN SubSeq(s, i, Len(s))
                 ELSE SubSeq(s, i, j - 1) \o " " \o CollapseWs(s, j + WsRun(s, j))
  IN From(FirstPos(LAMBDA k : Ch(s, k) \in WS, i, Len(s)))

DigitVal(c) == CHOOSE d \in 0..9 : SubSeq("0123456789", d + 1, d + 1) = c

RECURSIVE ToInt(_)
\* int() of a string of digits
ToInt(s) == IF s = "" THEN 0 ELSE 10 * ToInt(SubSeq(s, 1, Len(s) - 1)) + DigitVal(Ch(s, Len(s)))

AllDigits(s) == s # "" /\ \A i \in 1..Len(s) : IsDigit(Ch(s, i))

\* float() of a cleaned money token, in cents; None (the except branch) when
\* the text is not a decimal number with zero or two decimals
ToFloat(s) ==
  IF AllDigits(s) THEN Some(100 * ToInt(s))
  ELSE IF Len(s) >= 4 /\ Ch(s, Len(s) - 2) = "." /\ AllDigits(SubSeq(s, 1, Len(s) - 3)) /\ AllDigits(SubSeq(s, Len(s) - 1, Len(s)))
       THEN Some(100 * ToInt(SubSeq(s, 1, Len(s) - 3)) + ToInt(SubSeq(s, Len(s) - 1, Len(s))))
  ELSE NoneF

Pad2(n) == IF n < 10 THEN "0" \o ToString(n) ELSE ToString(n)

Pad4(n) == IF n < 10 THEN "000" \o ToString(n) ELSE IF n < 100 THEN "00" \o ToString(n) ELSE IF n < 1000 THEN "0" \o ToString(n) ELSE ToString(n)

\* f"{y:04d}-{m:02d}-{d:02d}"
IsoDate(y, m, d) == Pad4(y) \o "-" \o Pad2(m) \o "-" \o Pad2(d)

(***************************************************************************)
(* parsers/base.py: the money pattern                                      *)
(***************************************************************************)
\* the sign class of RE_AMOUNT.  norm() has replaced the typographic dashes
\* and the minus sign by "-" in every line before a pattern is applied.
AmountSigns == {"-"}

RECURSIVE ThousandsEnd(_, _)
\* (?:,\d{3})* from position i: the position after the last group
ThousandsEnd(s, i) ==
  IF Ch(s, i) = "," /\ DigitRun(s, i + 1, 3) = 3 THEN ThousandsEnd(s, i + 4) ELSE i

\* RE_AMOUNT tried at position i: the position after the match, 0 when the
\* pattern does not match there.  Every part after the digits is optional and
\* greedy, so the first attempt of the engine is the match.
RE_AMOUNT_end(s, i) ==
  LET Opt(p, cs) == IF Ch(s, p) \in cs THEN p + 1 ELSE p
      Cents(p) == IF Ch(s, p) = "." /\ DigitRun(s, p + 1, 2) = 2 THEN p + 3 ELSE p
      Number(p, d) == IF d = 0 THEN 0
                      ELSE Opt(Opt(Cents(ThousandsEnd(s, p + d)), {")"}), {"-"})
      Digits3(p) == Number(p, DigitRun(s, p, 3))
  IN Digits3(Opt(Opt(Opt(i, {"("}), AmountSigns), {"$"}))

RECURSIVE RE_AMOUNT_findall_from(_, _)
\* the matches from position i on: the leftmost match, then the matches after it
RE_AMOUNT_findall_from(s, i) ==
  LET Match(j, e) == <<SubSeq(s, j, e - 1)>> \o RE_AMOUNT_findall_from(s, e)
      From(j) == IF j = 0 THEN <<>> ELSE Match(j, RE_AMOUNT_end(s, j))
  IN From(FirstPos(LAMBDA k : RE_AMOUNT_end(s, k) > 0, i, Len(s)))

\* RE_AMOUNT.findall(s)
RE_AMOUNT_findall(s) == RE_AMOUNT_findall_from(s, 1)

RECURSIVE RE_AMOUNT_remove_from(_, _)
RE_AMOUNT_remove_from(s, i) ==
  LET From(j) == IF j = 0 THEN SubSeq(s, i, Len(s))
                 ELSE SubSeq(s, i, j - 1) \o RE_AMOUNT_remove_from(s, RE_AMOUNT_end(s, j))
  IN From(FirstPos(LAMBDA k : RE_AMOUNT_end(s, k) > 0, i, Len(s)))

\* re.sub(RE_AMOUNT.pattern, "", s)
RE_AMOUNT_remove(s) == RE_AMOUNT_remove_from(s, 1)

\* any(p in s for p in ps)
AnyContains(s, ps) == \E p \in ps : Contains(s, p)

\* any(s.startswith(p) for p in ps)
AnyStartsWith(s, ps) == \E p \in ps : StartsWith(s, p)

\* \s+ from position i: the position after the run, 0 when there is none
Ws1End(s, i) == IF i > 0 /\ WsRun(s, i) >= 1 THEN i + WsRun(s, i) ELSE 0

\* a literal at position i, 0 when it is not there (0 propagates a failure)
LitEnd(s, i, p) == IF i > 0 /\ MatchAt(s, i, p) THEN i + Len(p) ELSE 0

\* \d{lo,hi} from position i followed by the literal p: the position after p
DigitsThenLit(s, i, lo, hi, p) ==
  LET After(K) == IF K = {} THEN 0 ELSE i + (CHOOSE k \in K : \A m \in K : k <= m) + Len(p)
  IN IF i > 0 THEN After({k \in lo..hi : DigitRun(s, i, k) = k /\ MatchAt(s, i + k, p)}) ELSE 0

\* \d{n} from position i
DigitsEnd(s, i, n) == IF i > 0 /\ DigitRun(s, i, n) = n THEN i + n ELSE 0

(***************************************************************************)
(* parsers/chase.py: line classifiers                                      *)
(***************************************************************************)
ChaseParser_legal_starts == {
  "en caso de errores o preguntas sobre sus transferencias electrónicas",
  "en caso de errores o preguntas sobre sus transferencias electrÃ³nicas",
  "in case of errors or questions about your electronic funds transfers",
  "a reminder about incoming wire transfer fees",
  "un recordatorio acerca de los cargos por giro bancario"}

ChaseParser_is_legal_section_start(line) == AnyStartsWith(Strip(Lower(line)), ChaseParser_legal_starts)

ChaseParser_legal_ends == {
  "JPMorgan Chase Bank, N.A. Miembro FDIC",
  "Esta página se ha dejado en blanco intencionalmente"}

ChaseParser_is_legal_section_end(line) == Strip(line) \in ChaseParser_legal_ends

ChaseParser_legal_indicators == {
  "llámenos al 1-866-564-2262", "llÃ¡menos al 1-866-564-2262",
  "en caso de errores o preguntas", "prepárese para proporcionarnos",
  "prepÃ¡rese para proporcionar", "su nombre y número de cuenta"}

ChaseParser_is_legal_text(text) == AnyContains(Lower(text), ChaseParser_legal_indicators) /\ Len(text) > 200

ChaseParser_detect_section(line) ==
  LET Section(line_lower) ==
        IF AnyContains(line_lower, {"depósitos y adiciones", "deposits and additions", "depÃ³sitos y adiciones",
              "depósitos electrónicos", "electronic deposits", "depósitos electrÃ³nicos",
              "crédito de cámara", "ach credit"}) THEN "deposits"
        ELSE IF AnyContains(line_lower, {"retiros electrónicos", "electronic withdrawals", "retiros electrÃ³nicos",
              "débito de cámara", "débito de cÁmara", "dÉbito de cÁmara"}) THEN "withdrawals"
        ELSE IF line_lower = "cargos" \/ line_lower = "charges" \/ line_lower = "fees" THEN "fees"
        ELSE IF Contains(line_lower, "detalle de transacciones") \/ Contains(line_lower, "transaction detail") THEN "transactions"
        ELSE IF AnyContains(line_lower, {"atm & debit card withdrawals", "atm and debit card withdrawals", "card purchases"}) THEN "withdrawals"
        ELSE None
  IN Section(Strip(Lower(line)))

ChaseParser_is_section_header(line) == ChaseParser_detect_section(line) # None

MonthsEn == {"january", "february", "march", "april", "may", "june", "july", "august", "september", "october", "november", "december"}

MonthsEs == {"enero", "febrero", "marzo", "abril", "mayo", "junio", "julio", "agosto", "septiembre", "octubre", "noviembre", "diciembre"}

\* re.search(r"\b(<months>)\s+\d{1,2},\s+\d{4}\s+<word>\s+", s)
PeriodRowSearch(s, months, word) ==
  \E i \in 1..Len(s) : \E m \in months :
    /\ WordBoundary(s, i)
    /\ MatchAt(s, i, m)
    /\ Ws1End(s, LitEnd(s, Ws1End(s, DigitsEnd(s, Ws1End(s,
              DigitsThenLit(s, Ws1End(s, i + Len(m)), 1, 2, ",")), 4)), word)) > 0

ChaseParser_is_daily_balance_entry(line) ==
  LET Period(line_lower) ==
        \/ PeriodRowSearch(line_lower, MonthsEn, "through")
        \/ PeriodRowSearch(line_lower, MonthsEs, "a")
  IN Period(Strip(Lower(line)))

ChaseParser_basic_noise == {
  "jpmorgan chase bank", "página", "page", "pÃ¡gina",
  "número de cuenta", "account number", "nÃºmero de cuenta",
  "total de depósitos", "total deposits", "total de depÃ³sitos",
  "total de retiros", "total withdrawals", "total comisiones", "total fees",
  "saldo inicial", "beginning balance", "saldo final", "ending balance",
  "duplicate statement", "customer service information", "checking summary",
  "how to avoid the monthly service fee", "daily ending balance", "saldo final diario",
  "resumen de cuenta", "detalle de transacciones",
  "fecha descripción cantidad saldo", "fecha descripciÃ³n cantidad saldo",
  "información para atención al cliente", "informaciÃ³n para atenciÃ³n al cliente",
  "sitio web:", "centro de atención al cliente:", "centro de atenciÃ³n al cliente:",
  "para español:", "para espaÃ±ol:", "llamadas internacionales:",
  "chase total checking", "chase savings",
  "no se cobró un cargo mensual", "no se cobrÃ³ un cargo mensual",
  "no se aplicó un cargo mensual", "no se aplicÃ³ un cargo mensual",
  "tenga depósitos electrónicos", "tenga depÃ³sitos electrÃ³nicos",
  "mantenga un saldo", "rendimiento porcentual anual",
  "esta página se ha dejado en blanco", "esta pÃ¡gina se ha dejado en blanco"}

RECURSIVE CharRun(_, _, _)
\* number of characters of the class cs from position i on
CharRun(s, i, cs) == IF Ch(s, i) \in cs THEN 1 + CharRun(s, i + 1, cs) ELSE 0

\* re.match(r"^\s*\$[\d,]+\.?\d{0,2}\s*$", line)
StandaloneAmountMatch(line) ==
  LET End(d) == d + WsRun(line, d) = Len(line) + 1
      Cents(c) == End(c + DigitRun(line, c, 2))
      Dot(b) == Cents(IF Ch(line, b) = "." THEN b + 1 ELSE b)
      Number(a, n) == Ch(line, a) = "$" /\ n >= 1 /\ Dot(a + 1 + n)
      Dollar(a) == Number(a, CharRun(line, a + 1, Digits \cup {","}))
  IN Dollar(1 + WsRun(line, 1))

\* re.match(r"^\s*\d{12,}\s*$", line)
AccountNumberMatch(line) ==
  LET Number(a, n) == n >= 12 /\ a + n + WsRun(line, a + n) = Len(line) + 1
      From(a) == Number(a, CharRun(line, a, Digits))
  IN From(1 + WsRun(line, 1))

ChaseParser_is_noise_line(line) ==
  LET Basic(line_lower) ==
        \/ Contains(line_lower, "*start*") \/ Contains(line_lower, "*end*")
        \/ AnyStartsWith(line_lower, ChaseParser_basic_noise)
  IN \/ Basic(Strip(Lower(line)))
     \/ StandaloneAmountMatch(line)
     \/ AccountNumberMatch(line)
     \/ ChaseParser_is_daily_balance_entry(line)

ChaseParser_legal_markers == {
  "llámenos al", "llÃ¡menos al", "call us at", "en caso de errores", "in case of errors",
  "prepárese para proporcionar", "prepÃ¡rese para proporcionar", "prepare to provide"}

\* re.match(r"(\d{1,2})/(\d{1,2})\s", s): <<month text, day text>>, <<>> when
\* there is no match
ChaseDateMatch(s) ==
  LET Day(n1, n2) ==
        IF n1 >= 1 /\ Ch(s, n1 + 1) = "/" /\ n2 >= 1 /\ Ch(s, n1 + 2 + n2) \in WS
        THEN <<SubSeq(s, 1, n1), SubSeq(s, n1 + 2, n1 + 1 + n2)>>
        ELSE <<>>
      Month(n1) == Day(n1, DigitRun(s, n1 + 2, 2))
  IN Month(DigitRun(s, 1, 2))

\* _extract_date without the test for the legal markers
ChaseParser_extract_date_unmarked(line, year) ==
  LET Valid(month, day) ==
        IF month >= 1 /\ month <= 12 /\ day >= 1 /\ day <= 31
        THEN IsoDate(year, month, day) ELSE None
      Matched(m) == IF m = <<>> THEN None ELSE Valid(ToInt(m[1]), ToInt(m[2]))
  IN Matched(ChaseDateMatch(Strip(line)))

ChaseParser_extract_date(line, year) ==
  LET Valid(month, day) ==
        IF month >= 1 /\ month <= 12 /\ day >= 1 /\ day <= 31
        THEN IsoDate(year, month, day) ELSE None
      Matched(m) == IF m = <<>> THEN None ELSE Valid(ToInt(m[1]), ToInt(m[2]))
  IN IF AnyContains(Lower(line), ChaseParser_legal_markers) THEN None
     ELSE Matched(ChaseDateMatch(Strip(line)))

(***************************************************************************)
(* parsers/chase.py: the amount resolver                                   *)
(***************************************************************************)
\* amount_str.replace("$", "").replace(",", "").replace("(", "").replace(")", "").replace("-", "")
CleanAmount(amount_str) == RemoveChars(amount_str, {"$", ",", "(", ")", "-"})

PhoneSeps == {"-", ".", " ", "\t", "\n", "\r"}

ChaseParser_appears_in_phone_number(amount_str, full_text) ==
  LET Phone(clean_amount, n) ==
        \E i \in 1..Len(full_text) :
          \* \b<amount>[-.\s]\d{3,4}[-.\s]\d{4}\b
          \/ /\ WordBoundary(full_text, i)
             /\ MatchAt(full_text, i, clean_amount)
             /\ Ch(full_text, i + n) \in PhoneSeps
             /\ \E k \in 3..4 :
                  /\ DigitRun(full_text, i + n + 1, k) = k
                  /\ Ch(full_text, i + n + 1 + k) \in PhoneSeps
                  /\ DigitRun(full_text, i + n + k + 2, 4) = 4
                  /\ WordBoundary(full_text, i + n + k + 6)
          \* \b\d{3}[-.\s]<amount>[-.\s]\d{4}\b
          \/ /\ WordBoundary(full_text, i)
             /\ DigitRun(full_text, i, 3) = 3
             /\ Ch(full_text, i + 3) \in PhoneSeps
             /\ MatchAt(full_text, i + 4, clean_amount)
             /\ Ch(full_text, i + 4 + n) \in PhoneSeps
             /\ DigitRun(full_text, i + n + 5, 4) = 4
             /\ WordBoundary(full_text, i + n + 9)
          \* \b<amount>\.\d{4}\b
          \/ /\ WordBoundary(full_text, i)
             /\ MatchAt(full_text, i, clean_amount)
             /\ Ch(full_text, i + n) = "."
             /\ DigitRun(full_text, i + n + 1, 4) = 4
             /\ WordBoundary(full_text, i + n + 5)
  IN Phone(CleanAmount(amount_str), Len(CleanAmount(amount_str)))

\* re.search(rf"\bCard\s+{amount}\b", full_text, re.I)
ChaseParser_appears_to_be_card_number(amount_str, full_text) ==
  LET Number(a, clean_amount) ==
        /\ a > 0
        /\ MatchAt(full_text, a, clean_amount)
        /\ WordBoundary(full_text, a + Len(clean_amount))
      Card(clean_amount, text_lower) ==
        \E i \in 1..Len(full_text) :
          /\ WordBoundary(full_text, i)
          /\ MatchAt(text_lower, i, "card")
          /\ Number(Ws1End(full_text, i + 4), clean_amount)
  IN Card(CleanAmount(amount_str), Lower(full_text))

ChaseParser_is_likely_transaction_amount(amount_str, full_text) ==
  LET Likely(num_value) ==
        IF num_value = NoneF THEN FALSE
        ELSE IF num_value[1] < 100 THEN FALSE
        ELSE IF ChaseParser_appears_in_phone_number(amount_str, full_text) THEN FALSE
        ELSE IF ChaseParser_appears_to_be_card_number(amount_str, full_text) THEN FALSE
        ELSE TRUE
  IN Likely(ToFloat(CleanAmount(amount_str)))

RECURSIVE FindAllLines(_)
\* all_amounts: RE_AMOUNT.findall of every line of the block, in order
FindAllLines(block) == IF block = <<>> THEN <<>> ELSE RE_AMOUNT_findall(block[1]) \o FindAllLines(Tail(block))

ChaseParser_extract_amount_from_block_improved(block, full_text) ==
  LET is_negative(amount_str) ==
        StartsWith(amount_str, "-") \/ StartsWith(amount_str, "(") \/ EndsWith(amount_str, "-")
      Signed(amount_str, value) ==
        IF value = NoneF THEN NoneF
        ELSE IF is_negative(amount_str) THEN Some(0 - value[1]) ELSE value
      Value(amount_str) == Signed(amount_str, ToFloat(CleanAmount(amount_str)))
      valid_amounts(all_amounts, likely) == IF likely = <<>> THEN all_amounts ELSE likely
      Resolve(all_amounts) ==
        IF all_amounts = <<>> THEN NoneF
        ELSE Value(valid_amounts(all_amounts,
               SelectSeq(all_amounts, LAMBDA a : ChaseParser_is_likely_transaction_amount(a, full_text)))[1])
  IN Resolve(FindAllLines(block))

(***************************************************************************)
(* parsers/chase.py: description cleaning                                  *)
(***************************************************************************)
\* r"\d{1,2}/\d{1,2}(?:/\d{2,4})?\s*" tried at position i: the position after
\* the match, 0 when there is none
DateTokenEnd(s, i) ==
  LET Spaces(q) == q + WsRun(s, q)
      Year(p, n3) == Spaces(IF Ch(s, p) = "/" /\ n3 >= 2 THEN p + 1 + n3 ELSE p)
      Day(n1, n2) == IF n1 >= 1 /\ Ch(s, i + n1) = "/" /\ n2 >= 1
                     THEN Year(i + n1 + 1 + n2, DigitRun(s, i + n1 + n2 + 2, 4))
                     ELSE 0
      Month(n1) == Day(n1, DigitRun(s, i + n1 + 1, 2))
  IN Month(DigitRun(s, i, 2))

RECURSIVE RemoveDateTokens(_, _)
\* re.sub(r"\d{1,2}/\d{1,2}(?:/\d{2,4})?\s*", "", s)
RemoveDateTokens(s, i) ==
  LET From(j) == IF j = 0 THEN SubSeq(s, i, Len(s))
                 ELSE SubSeq(s, i, j - 1) \o RemoveDateTokens(s, DateTokenEnd(s, j))
  IN From(FirstPos(LAMBDA k : DateTokenEnd(s, k) > 0, i, Len(s)))

RECURSIVE WordsEnd(_, _, _)
\* w1\s+w2\s+...wn at position i of the lower-cased text
WordsEnd(ls, i, words) ==
  IF i = 0 \/ ~MatchAt(ls, i, words[1]) THEN 0
  ELSE IF Len(words) = 1 THEN i + Len(words[1])
  ELSE WordsEnd(ls, Ws1End(ls, i + Len(words[1])), Tail(words))

\* r"\s*w1\s+...wn\s*" (re.I) tried at position i of s, whose lower-cased
\* text is ls
PhraseEnd(ls, i, words) ==
  LET Spaces(e) == IF e = 0 THEN 0 ELSE e + WsRun(ls, e)
  IN Spaces(WordsEnd(ls, i + WsRun(ls, i), words))

RECURSIVE SubPhraseFrom(_, _, _, _, _)
SubPhraseFrom(s, ls, i, words, repl) ==
  LET From(j) == IF j = 0 THEN SubSeq(s, i, Len(s))
                 ELSE SubSeq(s, i, j - 1) \o repl \o SubPhraseFrom(s, ls, PhraseEnd(ls, j, words), words, repl)
  IN From(FirstPos(LAMBDA k : PhraseEnd(ls, k, words) > 0, i, Len(s)))

\* re.sub(r"\s*w1\s+...wn\s*", repl, s, flags=re.I)
SubPhrase(s, words, repl) == SubPhraseFrom(s, Lower(s), 1, words, repl)

\* re.sub(r"\s*w1\s+...wn\s*$", "", s, flags=re.I)
SubPhraseAtEnd(s, words) ==
  LET Cut(j) == IF j = 0 THEN s ELSE SubSeq(s, 1, j - 1)
      Search(ls) == Cut(FirstPos(LAMBDA k : PhraseEnd(ls, k, words) = Len(s) + 1, 1, Len(s)))
  IN Search(Lower(s))

\* cleaned[0].upper() + cleaned[1:]
Capitalize(s) == IF s = "" THEN "" ELSE UpperChar(Head(s)) \o Tail(s)

ChaseParser_clean_description(text) ==
  Capitalize(Strip(CollapseWs(
    SubPhrase(SubPhrase(SubPhrase(SubPhrase(
      SubPhraseAtEnd(RemoveDateTokens(RE_AMOUNT_remove(text), 1), <<"daily ending balance">>),
      <<"fecha", "cantidad">>, ""), <<"date", "amount">>, ""), <<"trn:">>, " Trn: "), <<"ssn:">>, " Ssn: "),
    1)))

(***************************************************************************)
(* parsers/chase.py: the direction classifier                              *)
(***************************************************************************)
\* PRIORITY 1 of _determine_direction: the patterns of a kind of transaction,
\* which override the section; None when the description holds none
ChaseParser_type_patterns(desc_lower) ==
  IF AnyContains(desc_lower, {"card purchase", "card withdrawal", "compra con tarjeta",
        "recurring card purchase", "lyft", "atlantic broadband", "harvard business serv"}) THEN "out"
  ELSE IF Contains(desc_lower, "deposit") \/ Contains(desc_lower, "depósito") \/ Contains(desc_lower, "depÃ³sito") THEN "in"
  ELSE IF AnyContains(desc_lower, {"payment to", "zelle payment to", "online payment", "pago a", "transferencia a"}) THEN "out"
  ELSE IF AnyContains(desc_lower, {"wise us inc", "wise", "trnwise"}) THEN "out"
  ELSE IF AnyContains(desc_lower, {"débito de cámara de compensación automatizada",
        "dÉbito de cÁmara de compensaciÓn automatizada", "débito de cámara", "dÉbito de cÁmara"}) THEN "out"
  ELSE None

\* an ACH item whatever its section: the rule of the mutant below
ChaseParser_ach_rule_by_indicator(desc_lower, section_context) ==
  IF ~Contains(desc_lower, "orig co name") THEN None
  ELSE IF AnyContains(desc_lower, {"descr:sender", "descr:credit", "credit"}) THEN "in"
  ELSE "out"

\* PRIORITY 2 of _determine_direction: an ACH item by its section; None when
\* the description is not one of an ACH item
ChaseParser_ach_rule(desc_lower, section_context) ==
  IF ~Contains(desc_lower, "orig co name") THEN None
  ELSE IF section_context = "deposits" THEN "in"
  ELSE IF section_context \in {"withdrawals", "electronic withdrawals"} THEN "out"
  ELSE IF AnyContains(desc_lower, {"descr:sender", "descr:credit", "credit"}) THEN "in"
  ELSE "out"

ChaseParser_determine_direction(description, section_context, amount, full_text) ==
  LET Rules(desc_lower) ==
        IF ChaseParser_type_patterns(desc_lower) # None THEN ChaseParser_type_patterns(desc_lower)
        ELSE IF ChaseParser_ach_rule(desc_lower, section_context) # None THEN ChaseParser_ach_rule(desc_lower, section_context)
        ELSE IF AnyContains(desc_lower, {"direct debit", "débito directo", "dÃ©bito directo", "elec pymt", "ach debit"}) THEN "out"
        ELSE IF AnyContains(desc_lower, {"fee", "charge", "cargo", "counter check", "comisión", "comisiÃ³n"}) THEN "out"
        ELSE IF section_context = "deposits" THEN "in"
        ELSE IF section_context \in {"withdrawals", "fees"} THEN "out"
        ELSE IF amount < 0 THEN "out"
        ELSE IF amount > 0 THEN "in"
        ELSE "out"
  IN Rules(Lower(description))

(***************************************************************************)
(* parsers/chase.py: one block                                             *)
(***************************************************************************)
\* the record of a transaction; <<>> is None
ChaseParser_process_transaction_block(block, date, section_context, year) ==
  LET Record(full_text, amount_, description_) ==
        IF amount_ = NoneF THEN <<>>
        ELSE IF description_ = "" \/ Len(Strip(description_)) < 3 THEN <<>>
        ELSE <<[date |-> date, description |-> description_, amount |-> amount_[1],
                direction |-> ChaseParser_determine_direction(description_, section_context, amount_[1], full_text)]>>
      Process(full_text) ==
        IF ChaseParser_is_legal_text(full_text) THEN <<>>
        ELSE IF ChaseParser_is_daily_balance_entry(full_text) THEN <<>>
        ELSE Record(full_text, ChaseParser_extract_amount_from_block_improved(block, full_text),
                    ChaseParser_clean_description(full_text))
  IN IF block = <<>> THEN <<>> ELSE Process(JoinSp(block))

(***************************************************************************)
(* parsers/base.py: dates, amounts and the generic block                   *)
(***************************************************************************)
AsciiLetters == {SubSeq(UpperChars, i, i) : i \in 1..26} \cup {SubSeq(LowerChars, i, i) : i \in 1..26}

MONTHS == [january |-> 1, february |-> 2, march |-> 3, april |-> 4, may |-> 5, june |-> 6,
           july |-> 7, august |-> 8, september |-> 9, october |-> 10, november |-> 11, december |-> 12,
           jan |-> 1, feb |-> 2, mar |-> 3, apr |-> 4, jun |-> 6, jul |-> 7, aug |-> 8,
           sep |-> 9, sept |-> 9, oct |-> 10, nov |-> 11, dec |-> 12]

RECURSIVE JoinNl(_)
\* "\n".join(list)
JoinNl(ss) ==
  IF ss = <<>> THEN ""
  ELSE IF Len(ss) = 1 THEN ss[1]
  ELSE ss[1] \o "\n" \o JoinNl(Tail(ss))

\* "\n".join(blobs): the text of the document the lines were extracted from
extract_full_text(lines) == JoinNl(lines)

\* re.search(r"\b(20\d{2})\b", text): the year of the leftmost match, else the
\* year of the clock (datetime.utcnow().year)
detect_year(text, utcnow_year) ==
  LET Year(j) == IF j = 0 THEN utcnow_year ELSE ToInt(SubSeq(text, j, j + 3))
  IN Year(FirstPos(LAMBDA k : /\ WordBoundary(text, k) /\ MatchAt(text, k, "20")
                              /\ DigitRun(text, k + 2, 2) = 2 /\ WordBoundary(text, k + 4),
                   1, Len(text)))

\* RE_DATE_SLASH.match(s): <<mm, dd, yy>> as texts (yy is "" when the year
\* group did not take part), <<>> when there is no match
RE_DATE_SLASH_match(s) ==
  LET Groups(a, b, p, n3) ==
        IF Ch(s, p) = "/" /\ n3 >= 2 /\ n3 <= 4 /\ WordBoundary(s, p + 1 + n3)
        THEN <<SubSeq(s, a, b - 2), SubSeq(s, b, p - 1), SubSeq(s, p + 1, p + n3)>>
        ELSE IF WordBoundary(s, p) THEN <<SubSeq(s, a, b - 2), SubSeq(s, b, p - 1), "">>
        ELSE <<>>
      Day(a, n1, n2) ==
        IF n1 = 0 \/ Ch(s, a + n1) # "/" \/ n2 = 0 THEN <<>>
        ELSE Groups(a, a + n1 + 1, a + n1 + 1 + n2, DigitRun(s, a + n1 + n2 + 2, 5))
      Month(a, n1) == Day(a, n1, DigitRun(s, a + n1 + 1, 2))
      From(a) == Month(a, DigitRun(s, a, 2))
  IN From(1 + WsRun(s, 1))

parse_mmdd_token(s, fallback_year) ==
  LET Date(mm, dd, y) == IsoDate(IF y < 100 THEN 2000 + y ELSE y, mm, dd)
      Token(m) == IF m = <<>> THEN None
                  ELSE Date(ToInt(m[1]), ToInt(m[2]), IF m[3] # "" THEN ToInt(m[3]) ELSE fallback_year)
  IN Token(RE_DATE_SLASH_match(s))

\* RE_DATE_LONG tried at position i: <<name, day, year>> as texts, <<>> when
\* the pattern does not match there
RE_DATE_LONG_at(s, i) ==
  LET Groups(n, a, b, c, d) ==
        IF WordBoundary(s, i) /\ n >= 3 /\ n <= 9 /\ d > 0 /\ WordBoundary(s, d)
        THEN <<SubSeq(s, i, i + n - 1), SubSeq(s, a, b - 2), SubSeq(s, c, d - 1)>>
        ELSE <<>>
      Year(n, a, b, c) == Groups(n, a, b, c, DigitsEnd(s, c, 4))
      Comma(n, a, b) == Year(n, a, b, IF b > 0 THEN b + WsRun(s, b) ELSE 0)
      Day(n, a) == Comma(n, a, DigitsThenLit(s, a, 1, 2, ","))
      Name(n) == Day(n, Ws1End(s, i + n))
  IN Name(CharRun(s, i, AsciiLetters))

parse_long_date(s) ==
  LET Date(mon, m) == IF mon \in DOMAIN MONTHS
                      THEN IsoDate(ToInt(m[3]), MONTHS[mon], ToInt(m[2])) ELSE None
      Matched(m) == Date(Lower(m[1]), m)
      Found(j) == IF j = 0 THEN None ELSE Matched(RE_DATE_LONG_at(s, j))
  IN Found(FirstPos(LAMBDA k : RE_DATE_LONG_at(s, k) # <<>>, 1, Len(s)))

RE_DATE_MMMDD_names == {"jan", "feb", "mar", "apr", "may", "jun", "jul", "aug", "sep", "sept", "oct", "nov", "dec"}

parse_mmmdd(s, fallback_year) ==
  LET Day(b, n) == b > 0 /\ n >= 1 /\ WordBoundary(s, b + n)
      Matches(ls, a, mon) == MatchAt(ls, a, mon)
                             /\ Day(Ws1End(s, a + Len(mon)), DigitRun(s, Ws1End(s, a + Len(mon)), 2))
      Date(mon, b) == IsoDate(fallback_year, MONTHS[mon], ToInt(SubSeq(s, b, b + DigitRun(s, b, 2) - 1)))
      Named(a, mons) == IF mons = {} THEN None
                        ELSE Date(CHOOSE mon \in mons : TRUE, Ws1End(s, a + Len(CHOOSE mon \in mons : TRUE)))
      From(ls, a) == Named(a, {mon \in RE_DATE_MMMDD_names : Matches(ls, a, mon)})
  IN From(Lower(s), 1 + WsRun(s, 1))

\* tokens is a list of RE_AMOUNT matches
pick_amount(tokens, prefer_first) ==
  LET Signed(neg, val) == IF val = NoneF THEN NoneF ELSE IF neg THEN Some(0 - val[1]) ELSE val
      Value(tok) == Signed(EndsWith(tok, "-") \/ StartsWith(tok, "-") \/ StartsWith(tok, "("),
                           ToFloat(RemoveChars(tok, {"(", ")", "-", "$", ","})))
      FirstOf(signed) == IF signed # <<>> THEN signed[1] ELSE tokens[1]
  IN IF tokens = <<>> THEN NoneF
     ELSE IF prefer_first THEN Value(tokens[1])
     ELSE Value(FirstOf(SelectSeq(tokens, LAMBDA t : Contains(t, "-") \/ Contains(t, "("))))

(***************************************************************************)
(* parsers/citi.py: the value of one money token                           *)
(***************************************************************************)
\* float(clean) of clean_to_float: float() reads a leading "-" of the text
\* as the sign of the number and raises on any other "-"
FloatOfClean(clean) ==
  LET Minus(v) == IF v = NoneF THEN NoneF ELSE Some(0 - v[1])
  IN IF StartsWith(clean, "-") THEN Minus(ToFloat(SubSeq(clean, 2, Len(clean)))) ELSE ToFloat(clean)

\* clean_to_float(amt_str), nested in
\* CitiParser._extract_transaction_amount_and_desc: "$", ",", "(" and ")" are
\* removed from the token, "-" is not
CitiParser_clean_to_float(amt_str) ==
  LET Enclosed(t) == StartsWith(t, "(") /\ EndsWith(t, ")")
      Leading(t) == StartsWith(t, "-")
      Signed(neg, v) == IF v = NoneF THEN NoneF ELSE IF neg THEN Some(0 - v[1]) ELSE v
      Value(t) == Signed(Enclosed(t) \/ Leading(t),
                         FloatOfClean(Strip(RemoveChars(amt_str, {"$", ",", "(", ")"}))))
  IN Value(Strip(amt_str))

\* re.sub(r"\s*" + RE_AMOUNT.pattern + r"\s*$", "", desc).strip()
clean_desc_remove_amount(desc) ==
  LET AtEnd(e) == e > 0 /\ e + WsRun(desc, e) = Len(desc) + 1
      Cut(j) == Strip(IF j = 0 THEN desc ELSE SubSeq(desc, 1, j - 1))
  IN Cut(FirstPos(LAMBDA k : AtEnd(RE_AMOUNT_end(desc, k + WsRun(desc, k))), 1, Len(desc)))

Abs(v) == IF v < 0 THEN 0 - v ELSE v

\* parse_mmdd_token(line, y) or parse_long_date(line) or parse_mmmdd(line, y)
GenericDate(line, y) ==
  LET Or(a, b) == IF a # None THEN a ELSE b
  IN Or(parse_mmdd_token(line, y), Or(parse_long_date(line), parse_mmmdd(line, y)))

\* the body of GenericParser.parse for one block: the record, <<>> when the
\* block has no amount
GenericBlockRecord(block, date) ==
  LET Record(block_text, amt) ==
        IF amt = NoneF THEN <<>>
        ELSE <<[date |-> date, description |-> clean_desc_remove_amount(block_text),
                amount |-> Abs(amt[1]), direction |-> None]>>
      Block(block_text) == Record(block_text, pick_amount(RE_AMOUNT_findall(block_text), TRUE))
  IN Block(JoinSp(block))

(***************************************************************************)
(* parsers/common.py                                                       *)
(***************************************************************************)
\* re.search(r"\bw1\s+w2...\s+wn\b", d)
WordsSearch(d, words) ==
  LET Ends(e) == e > 0 /\ WordBoundary(d, e)
  IN \E i \in 1..Len(d) : WordBoundary(d, i) /\ Ends(WordsEnd(d, i, words))

\* ".*" can run from position a to position b: no newline in between
DotStar(d, a, b) == a <= b /\ \A k \in a..(b - 1) : Ch(d, k) # "\n"

\* re.search(r"\bfirst.*w1\s+...wn\b", d)
GapSearch(d, first, words) ==
  LET Ends(e) == e > 0 /\ WordBoundary(d, e)
  IN \E i \in 1..Len(d) : \E k \in 1..Len(d) :
       /\ WordBoundary(d, i) /\ MatchAt(d, i, first)
       /\ DotStar(d, i + Len(first), k)
       /\ Ends(WordsEnd(d, k, words))

\* the rule n of DIR_RULES matches the upper-cased description d
DIR_RULES_match(n, d) ==
  CASE n = 1 -> WordsSearch(d, <<"ACH", "DEBIT">>)
    [] n = 2 -> WordsSearch(d, <<"ACH", "PULL">>)
    [] n = 3 -> \E i \in 1..Len(d) : \E w \in {"PAID", "PMT"} :
                  /\ WordBoundary(d, i) /\ MatchAt(d, i, "BILL")
                  /\ MatchAt(d, i + 4 + WsRun(d, i + 4), w)
                  /\ WordBoundary(d, i + 4 + WsRun(d, i + 4) + Len(w))
    [] n = 4 -> WordsSearch(d, <<"DEBIT", "MEMO">>)
    [] n = 5 -> \E i \in 1..Len(d) :
                  /\ WordBoundary(d, i) /\ MatchAt(d, i, "SERVICE CHARGE")
                  /\ \/ WordBoundary(d, i + 14)
                     \/ Ch(d, i + 14) = "S" /\ WordBoundary(d, i + 15)
    [] n = 6 -> WordsSearch(d, <<"WIRE", "FEE">>)
    [] n = 7 -> WordsSearch(d, <<"WIRE", "TRANS", "SVC", "CHARGE">>)
    [] n = 8 -> WordsSearch(d, <<"DBT", "CRD">>)
    [] n = 9 -> WordsSearch(d, <<"POS", "DEB">>)
    [] n = 10 -> WordsSearch(d, <<"DEBIT", "CARD", "PURCH">>)
    [] n = 11 -> GapSearch(d, "ZELLE", <<"PAYMENT", "TO">>)
    [] n = 12 -> WordsSearch(d, <<"PAYPAL">>)
    [] n = 13 -> WordsSearch(d, <<"CHECK">>)
    [] n = 14 -> WordsSearch(d, <<"WITHDRAWAL">>)
    [] n = 15 -> WordsSearch(d, <<"FEE">>)
    [] n = 16 -> WordsSearch(d, <<"ACH", "CREDIT">>)
    [] n = 17 -> WordsSearch(d, <<"ACH", "IN">>)
    [] n = 18 -> WordsSearch(d, <<"ELECTRONIC", "CREDIT">>)
    [] n = 19 -> \E i \in 1..Len(d) :
                  /\ WordBoundary(d, i)
                  /\ LET Ends(e) == e > 0 /\ (WordBoundary(d, e) \/ (Ch(d, e) = "T" /\ WordBoundary(d, e + 1)))
                     IN Ends(WordsEnd(d, i, <<"DEBIT", "CARD", "CREDI">>))
    [] n = 20 -> GapSearch(d, "ZELLE", <<"PAYMENT", "FROM">>)
    [] n = 21 -> \E i \in 1..Len(d) :
                  /\ WordBoundary(d, i)
                  /\ LET Ends(e) == e > 0 /\ (Ch(d, e) \in WS \/ e = Len(d) + 1)
                     IN Ends(WordsEnd(d, i, <<"WIRE", "IN">>))
    [] n = 22 -> WordsSearch(d, <<"INTEREST", "PAYMENT">>)
    [] n = 23 -> \E i \in 1..Len(d) :
                  /\ WordBoundary(d, i) /\ MatchAt(d, i, "WT") /\ WordBoundary(d, i + 2)
                  /\ ~\E k \in (i + 2)..Len(d) : DotStar(d, i + 2, k) /\ (MatchAt(d, k, "CHARGE") \/ MatchAt(d, k, "FEE"))
    [] n = 24 -> GapSearch(d, "PAYPAL", <<"CREDIT">>)

\* the direction of the rule n of DIR_RULES
DIR_RULES_direction(n) == IF n <= 15 THEN "out" ELSE "in"

DIR_RULES_count == 24

\* signed_amount is in cents
decide_direction(description, signed_amount) ==
  LET Rule(n) == IF n # 0 THEN DIR_RULES_direction(n)
                 ELSE IF signed_amount < 0 THEN "out" ELSE "in"
      Search(d) == Rule(FirstPos(LAMBDA k : DIR_RULES_match(k, d), 1, DIR_RULES_count))
  IN Search(Upper(description))

\* the characters of the dates in the order of their code points
OrdChars == " $()*,-./0123456789:ABCDEFGHIJKLMNOPQRSTUVWXYZ_abcdefghijklmnopqrstuvwxyz"

Ord(c) == CHOOSE k \in 1..Len(OrdChars) : SubSeq(OrdChars, k, k) = c

RECURSIVE StrLess(_, _)
\* a < b on str
StrLess(a, b) ==
  IF b = "" THEN FALSE
  ELSE IF a = "" THEN TRUE
  ELSE IF Head(a) = Head(b) THEN StrLess(Tail(a), Tail(b))
  ELSE Ord(Head(a)) < Ord(Head(b))

\* a sort that puts a record before the records with the same key
SortPositionBeforeEqual(out, date) == Cardinality({k \in 1..Len(out) : StrLess(out[k].date, date)})

\* the position at which list.sort puts a record with the key date into the
\* sorted list out: after every record whose key is not greater (the sort is
\* stable)
SortPosition(out, date) == Cardinality({k \in 1..Len(out) : ~StrLess(date, out[k].date)})

InsertAt(out, k, r) == SubSeq(out, 1, k) \o <<r>> \o SubSeq(out, k + 1, Len(out))

RECURSIVE SortByDate(_)
\* out.sort(key=lambda x: x["date"])
SortByDate(out) ==
  LET Insert(front, r) == InsertAt(front, SortPosition(front, r.date), r)
  IN IF out = <<>> THEN <<>>
     ELSE Insert(SortByDate(SubSeq(out, 1, Len(out) - 1)), out[Len(out)])

\* the record that normalize_transactions appends for the record t
NormalizedRecord(t) ==
  LET signed(amt) == IF amt < 0 THEN 0 - amt ELSE amt
  IN [date |-> t.date, description |-> Strip(t.description), amount |-> Abs(t.amount),
      direction |-> IF t.direction # None /\ t.direction # "" THEN t.direction
                    ELSE decide_direction(t.description, signed(t.amount))]

normalize_transactions(txs) == SortByDate([k \in 1..Len(txs) |-> NormalizedRecord(txs[k])])

(***************************************************************************)
(* parsers/bofa.py: the direction of a transaction                         *)
(***************************************************************************)
\* re.search(r"wire type:\s*" + what, desc_lower)
WireTypeSearch(desc_lower, what) ==
  \E i \in 1..Len(desc_lower) :
    /\ MatchAt(desc_lower, i, "wire type:")
    /\ MatchAt(desc_lower, i + 10 + WsRun(desc_lower, i + 10), what)

\* _determine_direction without its rules 1 and 2
BOFAParser_wire_rules_absent(desc_lower) == None

\* rules 1 and 2 of _determine_direction: the wire markers, None when the
\* description carries none
BOFAParser_wire_rules(desc_lower) ==
  IF \E what \in {"wire in", "intl in", "book in", "fx in"} : WireTypeSearch(desc_lower, what) THEN "in"
  ELSE IF \E what \in {"wire out", "intl out", "fx out", "book out"} : WireTypeSearch(desc_lower, what) THEN "out"
  ELSE None

\* the rules of _determine_direction that depend on the section only when
\* section_context is set (rules 10 to 12)
BOFAParser_context_rule(desc_lower, section_context) ==
  /\ section_context # None /\ section_context # ""
  /\ \/ AnyContains(desc_lower, {"online banking transfer", "online transfer"})
     \/ AnyContains(desc_lower, {"ca tlr transfer", "teller transfer"})
     \/ Contains(desc_lower, "bkofamerica bc")

\* the fallback rules of _determine_direction (priority 3)
BOFAParser_fallback_rules(description, desc_lower) ==
  IF Contains(desc_lower, "transfer") /\ Contains(desc_lower, "confirmation#") THEN "out"
  ELSE IF Contains(desc_lower, "online banking") /\ AnyContains(desc_lower, {"payment", "transfer"}) THEN "out"
  ELSE IF Contains(desc_lower, "wise inc") THEN (IF Contains(description, "-") THEN "out" ELSE "in")
  ELSE IF Contains(desc_lower, "ontop holdings") THEN "in"
  ELSE IF Contains(desc_lower, "des:") /\ AnyContains(desc_lower, {"alejandr", "leonardo"})
          /\ ~Contains(desc_lower, "payment") THEN "in"
  ELSE IF AnyContains(desc_lower, {"acctverify", "des:acctverify"}) THEN (IF Contains(description, "-") THEN "out" ELSE "in")
  ELSE IF Contains(desc_lower, "bnf:") THEN "out"
  ELSE "out"

\* BOFAParser._determine_direction
BOFAParser_determine_direction(description, section_context) ==
  LET Rules(desc_lower) ==
        IF BOFAParser_wire_rules(desc_lower) # None THEN BOFAParser_wire_rules(desc_lower)
        ELSE IF Contains(desc_lower, "zelle payment from") THEN "in"
        ELSE IF Contains(desc_lower, "zelle payment to") THEN "out"
        ELSE IF Contains(desc_lower, "transfer") /\ Contains(desc_lower, "from") /\ Contains(desc_lower, "via wise") THEN "in"
        ELSE IF AnyContains(desc_lower, {"fee", "charge", "svc charge", "monthly fee", "international transaction fee"}) THEN "out"
        ELSE IF AnyContains(desc_lower, {"checkcard", "purchase", "mobile purchase"}) THEN "out"
        ELSE IF AnyContains(desc_lower, {"deposit", "credit", "received", "cashreward"}) THEN "in"
        ELSE IF AnyContains(desc_lower, {"preferred rewards", "prfd rwds"}) /\ Contains(desc_lower, "waiver") THEN "out"
        ELSE IF BOFAParser_context_rule(desc_lower, section_context)
             THEN (IF section_context = "deposits" THEN "in" ELSE "out")
        ELSE IF section_context = "deposits" THEN "in"
        ELSE IF section_context = "withdrawals" THEN "out"
        ELSE BOFAParser_fallback_rules(description, desc_lower)
  IN Rules(Lower(description))

(***************************************************************************)
(* app.py: the patterns and the utilities of the /parse endpoint.  Amounts *)
(* are in cents, the x0 of a word in points, the top of a word in tenths   *)
(* of a point.                                                             *)
(***************************************************************************)
\* the no-break space U+00A0
NBSP == " "

\* norm(s) of app.py.  The typographic dashes are outside the alphabet of the
\* model's texts.
app_norm(s) == Strip(MapChars(LAMBDA c : IF c = NBSP THEN " " ELSE c, s))

\* MONEY_ANY_RE tried at position i: the position after the match, 0 when the
\* pattern does not match there
MONEY_ANY_RE_end(s, i) ==
  LET Opt(p, c) == IF Ch(s, p) = c THEN p + 1 ELSE p
      Cents(p) == IF Ch(s, p) = "." /\ DigitRun(s, p + 1, 2) = 2 THEN Opt(p + 3, ")") ELSE 0
      Number(p, d) == IF d = 0 THEN 0 ELSE Cents(ThousandsEnd(s, p + d))
      Digits3(p) == Number(p, DigitRun(s, p, 3))
  IN Digits3(Opt(Opt(Opt(i, "("), "-"), "$"))

\* MONEY_ANY_RE.fullmatch(txt)
MONEY_ANY_RE_fullmatch(txt) == MONEY_ANY_RE_end(txt, 1) = Len(txt) + 1

\* MONEY_RE.match(txt): the same pattern closed by $
MONEY_RE_match(txt) == MONEY_ANY_RE_end(txt, 1) = Len(txt) + 1

RECURSIVE MONEY_ANY_RE_finditer_from(_, _)
MONEY_ANY_RE_finditer_from(s, i) ==
  LET Match(j, e) == <<SubSeq(s, j, e - 1)>> \o MONEY_ANY_RE_finditer_from(s, e)
      From(j) == IF j = 0 THEN <<>> ELSE Match(j, MONEY_ANY_RE_end(s, j))
  IN From(FirstPos(LAMBDA k : MONEY_ANY_RE_end(s, k) > 0, i, Len(s)))

\* [m.group(0) for m in MONEY_ANY_RE.finditer(s)]
MONEY_ANY_RE_finditer(s) == MONEY_ANY_RE_finditer_from(s, 1)

\* DATE_MMDD_RE.match(s): <<group 1, group 2, group 3, the position after the
\* match>>, <<>> when the pattern does not match
DATE_MMDD_RE_match(s) ==
  LET Groups(a, b, p, n3) ==
        IF Ch(s, p) = "/" /\ n3 >= 2
        THEN <<SubSeq(s, a, b - 2), SubSeq(s, b, p - 1), SubSeq(s, p + 1, p + n3), p + 1 + n3>>
        ELSE <<SubSeq(s, a, b - 2), SubSeq(s, b, p - 1), "", p>>
      Day(a, n1, n2) ==
        IF n1 = 0 \/ Ch(s, a + n1) # "/" \/ n2 = 0 THEN <<>>
        ELSE Groups(a, a + n1 + 1, a + n1 + 1 + n2, DigitRun(s, a + n1 + n2 + 2, 4))
      Month(a, n1) == Day(a, n1, DigitRun(s, a + n1 + 1, 2))
      From(a) == Month(a, DigitRun(s, a, 2))
  IN From(1 + WsRun(s, 1))

\* parse_mmdd(s, fallback_year) of app.py
parse_mmdd(s, fallback_year) ==
  LET Date(mm, dd, y) == IsoDate(IF y < 100 THEN 2000 + y ELSE y, mm, dd)
      Token(m) == IF m = <<>> THEN None
                  ELSE Date(ToInt(m[1]), ToInt(m[2]), IF m[3] # "" THEN ToInt(m[3]) ELSE fallback_year)
  IN Token(DATE_MMDD_RE_match(s))

MONTH_EN == [january |-> 1, february |-> 2, march |-> 3, april |-> 4, may |-> 5, june |-> 6,
             july |-> 7, august |-> 8, september |-> 9, october |-> 10, november |-> 11, december |-> 12,
             sept |-> 9, septembe |-> 9]

MONTH_ES == [enero |-> 1, febrero |-> 2, marzo |-> 3, abril |-> 4, mayo |-> 5, junio |-> 6,
             julio |-> 7, agosto |-> 8, septiembre |-> 9, setiembre |-> 9, octubre |-> 10,
             noviembre |-> 11, diciembre |-> 12]

\* LONG_EN_RE tried at position i: its three groups, <<>> when it does not
\* match there.  The pattern is the pattern of RE_DATE_LONG.
LONG_EN_RE_at(s, i) == RE_DATE_LONG_at(s, i)

\* the letters of the second group of LONG_ES1_RE
LONG_ES1_letters == AsciiLetters \cup {"Á", "É", "Í", "Ó", "Ú", "á", "é", "í", "ó", "ú"}

\* LONG_ES1_RE tried at position i: its three groups, <<>> when it does not
\* match there.  ls is s in lower case, for re.I.
LONG_ES1_RE_at(s, ls, i) ==
  LET Groups(n1, b, n, d, e) ==
        IF WordBoundary(s, i) /\ b > 0 /\ n >= 1 /\ e > 0 /\ WordBoundary(s, e)
        THEN <<SubSeq(s, i, i + n1 - 1), SubSeq(s, b, b + n - 1), SubSeq(s, d, e - 1)>>
        ELSE <<>>
      Year(n1, b, n, d) == Groups(n1, b, n, d, DigitsEnd(s, d, 4))
      De2(n1, b, n) == Year(n1, b, n, Ws1End(s, LitEnd(ls, Ws1End(s, IF n >= 1 THEN b + n ELSE 0), "de")))
      Name(n1, b) == De2(n1, b, CharRun(s, b, LONG_ES1_letters))
      De1(n1) == Name(n1, Ws1End(s, LitEnd(ls, Ws1End(s, IF n1 >= 1 /\ n1 <= 2 THEN i + n1 ELSE 0), "de")))
  IN De1(DigitRun(s, i, 3))

\* parse_long_date(text) of app.py before it is formatted: <<year, month,
\* day>>, <<>> for None
app_long_date_parts(text) ==
  LET Es(m) == IF m # <<>> /\ Lower(m[2]) \in DOMAIN MONTH_ES
               THEN <<ToInt(m[3]), MONTH_ES[Lower(m[2])], ToInt(m[1])>> ELSE <<>>
      EsAt(lt, j) == IF j = 0 THEN <<>> ELSE Es(LONG_ES1_RE_at(text, lt, j))
      EsIn(lt) == EsAt(lt, FirstPos(LAMBDA k : LONG_ES1_RE_at(text, lt, k) # <<>>, 1, Len(text)))
      En(m) == IF m # <<>> /\ Lower(m[1]) \in DOMAIN MONTH_EN
               THEN <<ToInt(m[3]), MONTH_EN[Lower(m[1])], ToInt(m[2])>>
               ELSE EsIn(Lower(text))
      EnAt(j) == En(IF j = 0 THEN <<>> ELSE LONG_EN_RE_at(text, j))
  IN EnAt(FirstPos(LAMBDA k : LONG_EN_RE_at(text, k) # <<>>, 1, Len(text)))

\* parse_long_date(text) of app.py
app_parse_long_date(text) ==
  LET Format(p) == IF p = <<>> THEN None ELSE IsoDate(p[1], p[2], p[3])
  IN Format(app_long_date_parts(text))

\* one side of the first pattern of detect_period from position p, where its
\* month starts: [A-Za-z]+\s+\d{1,2}\s*\d{0,2}? followed by \s+to\s+ when
\* followed is TRUE and by nothing otherwise.  The result is <<the position
\* after the group, the position after what follows it>>, <<>> when the
\* text does not match.
PeriodSide(t, p, followed) ==
  LET Shape(q, a, b, c, e) ==
        IF ~followed THEN (IF a >= 1 THEN <<q + a + b, q + a + b>> ELSE <<>>)
        ELSE IF a >= 1 /\ a <= 2 /\ b >= 1 /\ c = 0 THEN <<q + a + b - 1, q + a + b>>
        ELSE IF a >= 3 /\ a <= 4 /\ b >= 1 /\ c = 0 THEN <<q + a, q + a + b>>
        ELSE IF a >= 1 /\ a <= 2 /\ b >= 1 /\ c >= 1 /\ c <= 2 /\ e >= 1 THEN <<q + a + b + c, q + a + b + c + e>>
        ELSE <<>>
      Second(q, a, b, c) == Shape(q, a, b, c, WsRun(t, q + a + b + c))
      Gap(q, a, b) == Second(q, a, b, IF followed THEN DigitRun(t, q + a + b, 3) ELSE 0)
      First(q, a) == Gap(q, a, WsRun(t, q + a))
      Day(q) == IF q = 0 THEN <<>> ELSE First(q, DigitRun(t, q, IF followed THEN 5 ELSE 2))
      Name(n) == Day(IF n >= 1 THEN Ws1End(t, p + n) ELSE 0)
  IN IF p = 0 THEN <<>> ELSE Name(CharRun(t, p, AsciiLetters))

\* the first pattern of detect_period tried at position i: its two groups,
\* <<>> when it does not match there.  lt is t in lower case, for re.I.
PeriodForAt(t, lt, i) ==
  LET Both(a, side1, b, side2) ==
        IF side2 = <<>> THEN <<>> ELSE <<SubSeq(t, a, side1[1] - 1), SubSeq(t, b, side2[1] - 1)>>
      Right(a, side1, b) == Both(a, side1, b, PeriodSide(t, b, FALSE))
      To(a, side1) ==
        IF side1 = <<>> THEN <<>> ELSE Right(a, side1, Ws1End(t, LitEnd(lt, side1[2], "to")))
      Left(a) == To(a, PeriodSide(t, a, TRUE))
  IN Left(Ws1End(t, LitEnd(lt, i, "for")))

\* \d{1,2}/\d{1,2}/\d{2,4} at position p: <<month, day, year, the position
\* after the date>> with the numbers as int() reads them, <<>> when the text
\* does not match
PeriodSlashDate(t, p) ==
  LET Groups(a, b, c, n3) ==
        IF n3 >= 2 THEN <<ToInt(SubSeq(t, a, b - 2)), ToInt(SubSeq(t, b, c - 2)), ToInt(SubSeq(t, c, c + n3 - 1)), c + n3>>
        ELSE <<>>
      Day(a, n1, n2) ==
        IF n1 = 0 \/ Ch(t, a + n1) # "/" \/ n2 = 0 \/ Ch(t, a + n1 + 1 + n2) # "/" THEN <<>>
        ELSE Groups(a, a + n1 + 1, a + n1 + n2 + 2, DigitRun(t, a + n1 + n2 + 2, 4))
      Month(a, n1) == Day(a, n1, DigitRun(t, a + n1 + 1, 2))
  IN IF p = 0 THEN <<>> ELSE Month(p, DigitRun(t, p, 2))

\* the second pattern of detect_period tried at position i: its two dates,
\* <<>> when it does not match there.  lt is t in lower case, for re.I.
PeriodSummaryAt(t, lt, i) ==
  LET Both(d1, d2) == IF d2 = <<>> THEN <<>> ELSE <<d1, d2>>
      Dash(d1) ==
        IF d1 = <<>> \/ Ch(t, d1[4] + WsRun(t, d1[4])) # "-" THEN <<>>
        ELSE Both(d1, PeriodSlashDate(t, d1[4] + WsRun(t, d1[4]) + 1 + WsRun(t, d1[4] + WsRun(t, d1[4]) + 1)))
      Colon(p) == IF p = 0 THEN <<>> ELSE Dash(PeriodSlashDate(t, p + WsRun(t, p)))
  IN Colon(LitEnd(lt, Ws1End(t, LitEnd(lt, Ws1End(t, LitEnd(lt, Ws1End(t, LitEnd(lt, i, "summary")), "for")), "the")), "period:"))

\* mmdd(s) in detect_period, on the numbers of a date
PeriodMmdd(d) == ToString(IF d[3] < 100 THEN 2000 + d[3] ELSE d[3]) \o "-" \o Pad2(d[1]) \o "-" \o Pad2(d[2])

\* detect_period(text): <<>> for None, else a list with the one period
detect_period(text, utcnow_year) ==
  LET Fallback(end) ==
        IF end = <<>> THEN <<>>
        ELSE <<[start |-> ToString(end[1]) \o "-" \o Pad2(end[2]) \o "-01", end |-> IsoDate(end[1], end[2], end[3])]>>
      Summary(m) ==
        IF m # <<>> THEN <<[start |-> PeriodMmdd(m[1]), end |-> PeriodMmdd(m[2])]>>
        ELSE Fallback(app_long_date_parts(text))
      SummaryAt(lt, j) == Summary(IF j = 0 THEN <<>> ELSE PeriodSummaryAt(text, lt, j))
      Second(lt) == SummaryAt(lt, FirstPos(LAMBDA k : PeriodSummaryAt(text, lt, k) # <<>>, 1, Len(text)))
      Range(lt, a, b) == IF a # None /\ b # None THEN <<[start |-> a, end |-> b]>> ELSE Second(lt)
      For(lt, m, year) ==
        IF m = <<>> THEN Second(lt)
        ELSE Range(lt, app_parse_long_date(m[1] \o ", " \o year), app_parse_long_date(m[2] \o ", " \o year))
      ForAt(lt, j) == For(lt, IF j = 0 THEN <<>> ELSE PeriodForAt(text, lt, j), ToString(detect_year(text, utcnow_year)))
      First(lt) == ForAt(lt, FirstPos(LAMBDA k : PeriodForAt(text, lt, k) # <<>>, 1, Len(text)))
  IN First(Lower(text))

\* int(period["end"].split("-")[0])
PeriodEndYear(period) ==
  ToInt(SubSeq(period.end, 1, FirstPos(LAMBDA k : Ch(period.end, k) = "-", 1, Len(period.end)) - 1))

\* a <= b on str
StrLeq(a, b) == ~StrLess(b, a)

\* in_period(date_iso, period)
in_period(date_iso, period) ==
  IF period = <<>> \/ date_iso = None \/ date_iso = "" THEN TRUE
  ELSE StrLeq(period[1].start, date_iso) /\ StrLeq(date_iso, period[1].end)

\* float(num), in cents, for the texts that the money patterns leave
app_float(num) ==
  LET Negative(v) == IF v = NoneF THEN NoneF ELSE Some(0 - v[1])
  IN IF StartsWith(num, "-") THEN Negative(ToFloat(SubSeq(num, 2, Len(num)))) ELSE ToFloat(num)

\* the end of to_amount_token: the number of the chosen token
TokenAmount(token) ==
  IF token = "" THEN NoneF
  ELSE IF Contains(token, "(") THEN app_float("-" \o RemoveChars(token, {"$", ",", "(", ")"}))
  ELSE app_float(RemoveChars(token, {"$", ","}))

\* |a - b|
AbsDiff(a, b) == IF a < b THEN b - a ELSE a - b

\* to_amount_token(row_text, right_x, words_in_row).  right_x is NoneF or
\* twice the median, which is a whole number for whole x0.
to_amount_token(row_text, right_x, words_in_row) ==
  LET Signed(ts) == SelectSeq(ts, LAMBDA t : Contains(t, "-") \/ Contains(t, "("))
      Prefer(ts) == IF Signed(ts) # <<>> THEN Signed(ts)[1] ELSE ts[1]
      Scan(m_all) == IF m_all = <<>> THEN "" ELSE Prefer(m_all)
      Nearest(cs) ==
        cs[CHOOSE k \in 1..Len(cs) :
             /\ \A m \in 1..Len(cs) : AbsDiff(2 * cs[k][1], right_x[1]) <= AbsDiff(2 * cs[m][1], right_x[1])
             /\ \A m \in 1..(k - 1) : AbsDiff(2 * cs[k][1], right_x[1]) < AbsDiff(2 * cs[m][1], right_x[1])][2]
      Token(cs) ==
        IF right_x # NoneF /\ cs # <<>> THEN Nearest(cs)
        ELSE IF cs # <<>> THEN Prefer([k \in 1..Len(cs) |-> cs[k][2]])
        ELSE Scan(MONEY_ANY_RE_finditer(row_text))
      Candidates(ws) == SelectSeq(ws, LAMBDA c : MONEY_ANY_RE_fullmatch(c[2]))
  IN TokenAmount(Token(Candidates([k \in 1..Len(words_in_row) |-> <<words_in_row[k].x0, app_norm(words_in_row[k].text)>>])))

\* classify_direction(desc, amount)
classify_direction(desc, amt) ==
  IF amt < 0 THEN "out"
  ELSE IF amt > 0 THEN "in"
  ELSE IF AnyContains(Lower(desc), {"deposit", "credit", "money added", "incoming"}) THEN "in"
  ELSE IF AnyContains(Lower(desc), {"withdraw", "debit", "outgoing", "payment", "fee"}) THEN "out"
  ELSE "unknown"

\* the number of characters from position i on that are in the set cs
RECURSIVE ClassRun(_, _, _)
ClassRun(s, i, cs) == IF Ch(s, i) \in cs THEN 1 + ClassRun(s, i + 1, cs) ELSE 0

\* the first pattern of extract_ref tried at position i of s, whose
\* lower-cased text is ls: <<the position of group 1, its length>>, <<>> when
\* the pattern does not match there
REF_LABEL_at(s, ls, i) ==
  LET Group(g) == IF ClassRun(s, g, AsciiLetters \cup Digits \cup {"-"}) > 0
                  THEN <<g, ClassRun(s, g, AsciiLetters \cup Digits \cup {"-"})>> ELSE <<>>
      After(e) == Group(e + WsRun(s, e))
      Label(ws) == IF ws = {} THEN <<>> ELSE After(i + Len(CHOOSE w \in ws : TRUE))
  IN Label({w \in {"conf#", "confirmation#", "ref:", "reference:", "id:", "transaction:"} : MatchAt(ls, i, w)})

\* \b[A-Za-z0-9]{8,}\b tried at position i of s: the length of the match, 0
\* when the pattern does not match there
REF_WORD_at(s, i) ==
  LET Run(n) == IF n >= 8 /\ WordBoundary(s, i + n) THEN n ELSE 0
  IN IF WordBoundary(s, i) THEN Run(ClassRun(s, i, AsciiLetters \cup Digits)) ELSE 0

\* extract_ref(s): <<>> for None, <<ref>> for the reference id
extract_ref(s) ==
  LET Word(i) == IF i = 0 THEN <<>> ELSE <<SubSeq(s, i, i + REF_WORD_at(s, i) - 1)>>
      Labelled(ls, i) ==
        IF i = 0 THEN Word(FirstPos(LAMBDA k : REF_WORD_at(s, k) > 0, 1, Len(s)))
        ELSE <<SubSeq(s, REF_LABEL_at(s, ls, i)[1], REF_LABEL_at(s, ls, i)[1] + REF_LABEL_at(s, ls, i)[2] - 1)>>
      Search(ls) == Labelled(ls, FirstPos(LAMBDA k : REF_LABEL_at(s, ls, k) # <<>>, 1, Len(s)))
  IN Search(Lower(s))

IGNORE_UP == { "SERVICE CHARGE SUMMARY", "WAIVE", "PRICE/UNIT", "BANKCARD FEE",
               "BANKCARD DISCOUNT FEE", "BANKCARD INTERCHANGE FEE" }

\* should_ignore(block_text_up)
should_ignore(block_text_up) == AnyContains(block_text_up, IGNORE_UP)

(***************************************************************************)
(* app.py: parse_pdf.  The pdf has one page; a word is a record with the   *)
(* fields text, x0 and top, and the words are in the order of (top, x0).   *)
(* The locals of parse_pdf are the fields of a record a:                   *)
(*   pc                   "start", "rows" or "done"                        *)
(*   rows, i              the rows of the page and the index of the row    *)
(*                        the loop is at (from 1)                          *)
(*   text_blob, period, right_x                                            *)
(*   current              <<>> for None, else a list with the open block   *)
(*   txs                  the records appended so far                      *)
(***************************************************************************)
\* tol of parse_pdf, 4.5 points
tol == 45

\* y_tolerance of the call of extract_text, 3 points
y_tolerance == 30

RECURSIVE GroupRows(_, _, _, _)
\* the rows that the words from the k-th on add to rows: a word joins the
\* last row when its top is within t of the top of that row
GroupRows(ws, k, rows_, t) ==
  LET Put(w, n) ==
        IF n > 0 /\ AbsDiff(w.top, rows_[n].top) <= t
        THEN [rows_ EXCEPT ![n].words = Append(@, w)]
        ELSE Append(rows_, [top |-> w.top, words |-> <<w>>])
  IN IF k > Len(ws) THEN rows_ ELSE GroupRows(ws, k + 1, Put(ws[k], Len(rows_)), t)

\* " ".join(norm(w["text"]) for w in r["words"])
RowText(r) == JoinSp([k \in 1..Len(r.words) |-> app_norm(r.words[k].text)])

\* twice statistics.median(xs), NoneF for an empty list
Median2(xs) ==
  LET Kth(k) == CHOOSE v \in {xs[n] : n \in 1..Len(xs)} :
                  /\ Cardinality({n \in 1..Len(xs) : xs[n] < v}) < k
                  /\ Cardinality({n \in 1..Len(xs) : xs[n] <= v}) >= k
  IN IF xs = <<>> THEN NoneF
     ELSE IF Len(xs) % 2 = 1 THEN Some(2 * Kth((Len(xs) + 1) \div 2))
     ELSE Some(Kth(Len(xs) \div 2) + Kth(Len(xs) \div 2 + 1))

\* the record parse_pdf appends for a block
AppRecord(date_iso, desc, amt) ==
  [date |-> date_iso, description |-> desc, amount |-> amt, direction |-> classify_direction(desc, amt)]

RECURSIVE FirstRowAmount(_, _, _)
\* the loop of flush_current over current["rows"], from the k-th row on
FirstRowAmount(rs, k, right_x) ==
  LET Found(amt) == IF amt # NoneF THEN amt ELSE FirstRowAmount(rs, k + 1, right_x)
  IN IF k > Len(rs) THEN NoneF ELSE Found(to_amount_token(RowText(rs[k]), right_x, rs[k].words))

\* fb_year of parse_pdf
FallbackYear(period, utcnow_year) == IF period # <<>> THEN PeriodEndYear(period[1]) ELSE utcnow_year

\* flush_current(), on the locals a
flush_current(a, utcnow_year) ==
  LET closed == [a EXCEPT !.current = <<>>]
      Emit(rawtxt, date_iso, amt) ==
        IF date_iso # None /\ date_iso # "" /\ in_period(date_iso, a.period) /\ amt # NoneF
        THEN [closed EXCEPT !.txs = Append(a.txs, AppRecord(date_iso, rawtxt, amt[1]))]
        ELSE closed
      Dated(cur, rawtxt) ==
        IF cur.date # None /\ cur.date # "" THEN cur.date
        ELSE IF DATE_MMDD_RE_match(rawtxt) # <<>>
             THEN parse_mmdd(SubSeq(rawtxt, 1, DATE_MMDD_RE_match(rawtxt)[4] - 1), FallbackYear(a.period, utcnow_year))
        ELSE app_parse_long_date(rawtxt)
      Amount(cur) ==
        IF cur.amount = NoneF /\ cur.rows # <<>> THEN FirstRowAmount(cur.rows, 1, a.right_x) ELSE cur.amount
      Block(cur, rawtxt) ==
        IF should_ignore(Upper(rawtxt)) THEN closed
        ELSE Emit(rawtxt, Dated(cur, rawtxt), Amount(cur))
  IN IF a.current = <<>> THEN a ELSE Block(a.current[1], Strip(JoinSp(a.current[1].strings)))

\* the statements of parse_pdf before the loop over the rows
AppStartStep(ws, utcnow_year) ==
  LET Xs(all) == [k \in 1..Len(all) |-> all[k].x0]
      Frame(rows_, text_blob) ==
        [pc |-> "rows", rows |-> rows_, i |-> 1, text_blob |-> text_blob,
         period |-> detect_period(text_blob, utcnow_year),
         right_x |-> Median2(Xs(SelectSeq(ws, LAMBDA w : MONEY_RE_match(app_norm(w.text))))),
         current |-> <<>>, txs |-> <<>>]
  IN Frame(GroupRows(ws, 1, <<>>, tol), JoinNl([k \in 1..Len(ws) |-> app_norm(ws[k].text)]))

\* bool(LONG_EN_RE.search(row_text) or LONG_ES1_RE.search(row_text)); lt is
\* row_text in lower case
starts_with_long(row_text, lt) ==
  \E k \in 1..Len(row_text) : LONG_EN_RE_at(row_text, k) # <<>> \/ LONG_ES1_RE_at(row_text, lt, k) # <<>>

\* the amount is kept and the block stays open
AppCapturedStaysOpen(b, amt, utcnow_year) ==
  IF amt # NoneF THEN [b EXCEPT !.current[1].amount = amt] ELSE b

\* "if amt is not None: current['amount'] = amt; flush_current()"
AppCaptured(b, amt, utcnow_year) ==
  IF amt # NoneF THEN flush_current([b EXCEPT !.current[1].amount = amt], utcnow_year) ELSE b

\* one iteration of the loop over the rows
AppRowStep(a, utcnow_year) ==
  LET next == [a EXCEPT !.i = a.i + 1]
      Captured(b, amt) == AppCaptured(b, amt, utcnow_year)
      Open(b, r, row_text, date_iso) ==
        Captured([b EXCEPT !.current = <<[date |-> date_iso, strings |-> <<row_text>>, rows |-> <<r>>, amount |-> NoneF]>>],
                 to_amount_token(row_text, a.right_x, r.words))
      More(r, row_text) ==
        IF a.current = <<>> THEN next
        ELSE IF a.current[1].amount # NoneF
             THEN [next EXCEPT !.current[1].strings = Append(@, row_text), !.current[1].rows = Append(@, r)]
        ELSE Captured([next EXCEPT !.current[1].strings = Append(@, row_text), !.current[1].rows = Append(@, r)],
                      to_amount_token(row_text, a.right_x, r.words))
      Row(r, row_text) ==
        IF row_text = "" THEN next
        ELSE IF DATE_MMDD_RE_match(row_text) # <<>>
             THEN Open(flush_current(next, utcnow_year), r, row_text,
                       parse_mmdd(SubSeq(row_text, 1, DATE_MMDD_RE_match(row_text)[4] - 1), FallbackYear(a.period, utcnow_year)))
        ELSE IF starts_with_long(row_text, Lower(row_text))
             THEN Open(flush_current(next, utcnow_year), r, row_text, app_parse_long_date(row_text))
        ELSE More(r, row_text)
  IN Row(a.rows[a.i], Strip(RowText(a.rows[a.i])))

\* re.match(r"^\d{2}/\d{2}/\d{2,4}\b", ln): the position after the match, 0
\* when the pattern does not match
BofaDateEnd(ln) ==
  LET Year(p, n3) == IF p > 0 /\ n3 >= 2 /\ ~IsWordChar(Ch(ln, p + n3)) THEN p + n3 ELSE 0
      Slash2(p) == Year(p, DigitRun(ln, p, 4))
  IN Slash2(LitEnd(ln, DigitsEnd(ln, LitEnd(ln, DigitsEnd(ln, 1, 2), "/"), 2), "/"))

\* -?\d{1,3}(?:,\d{3})*\.\d{2} tried at position i: the position after the
\* match, 0 when the pattern does not match there
BofaAmountEnd(s, i) ==
  LET Cents(p) == IF Ch(s, p) = "." /\ DigitRun(s, p + 1, 2) = 2 THEN p + 3 ELSE 0
      Number(p, d) == IF d = 0 THEN 0 ELSE Cents(ThousandsEnd(s, p + d))
      Digits3(p) == Number(p, DigitRun(s, p, 3))
  IN Digits3(IF Ch(s, i) = "-" THEN i + 1 ELSE i)

\* the headers the textual fallback leaves out of a description
BofaHeaders == { "deposits and other credits", "withdrawals and other debits", "service fees", "total " }

\* one iteration of the loop of the textual fallback over the lines; st holds
\* current_bofa (<<>> for None) and results
BofaLineStep(st, ln, fb_year) ==
  LET kept == IF st.current_bofa # <<>> /\ st.current_bofa[1].amount # NoneF
              THEN Append(st.results, st.current_bofa[1]) ELSE st.results
      Dated(e) ==
        IF Ch(ln, e) \in WS
        THEN [current_bofa |-> <<[date |-> parse_mmdd(SubSeq(ln, 1, e - 1), fb_year),
                                  desc |-> Strip(SubSeq(ln, e, Len(ln))), amount |-> NoneF]>>,
              results |-> kept]
        ELSE [current_bofa |-> <<>>, results |-> kept]
      Described(cur) ==
        IF ln # "" /\ ~AnyStartsWith(Lower(ln), BofaHeaders)
        THEN [st EXCEPT !.current_bofa[1].desc = cur.desc \o " " \o ln] ELSE st
      Amount(cur, j) ==
        IF j > 0 /\ cur.amount = NoneF
        THEN [st EXCEPT !.current_bofa[1].amount = app_float(RemoveChars(SubSeq(ln, j, Len(ln)), {","}))]
        ELSE Described(cur)
      Other(cur) == Amount(cur, FirstPos(LAMBDA k : BofaAmountEnd(ln, k) = Len(ln) + 1, 1, Len(ln)))
  IN IF BofaDateEnd(ln) > 0 THEN Dated(BofaDateEnd(ln))
     ELSE IF st.current_bofa # <<>> THEN Other(st.current_bofa[1])
     ELSE st

RECURSIVE BofaLines(_, _, _, _)
\* the loop of the textual fallback from the k-th line on
BofaLines(st, lines, k, fb_year) ==
  IF k > Len(lines) THEN st ELSE BofaLines(BofaLineStep(st, lines[k], fb_year), lines, k + 1, fb_year)

RECURSIVE BofaEmit(_, _, _)
\* the records the textual fallback appends for results, from the k-th on
BofaEmit(results, k, period) ==
  IF k > Len(results) THEN <<>>
  ELSE (IF results[k].date = None \/ results[k].date = "" \/ ~in_period(results[k].date, period) THEN <<>>
        ELSE <<AppRecord(results[k].date, Strip(results[k].desc), results[k].amount[1])>>)
       \o BofaEmit(results, k + 1, period)

\* the lines of the second extraction: page.extract_text(x_tolerance=3,
\* y_tolerance=3) puts the words whose tops are within y_tolerance on one
\* line, with a blank between them
LinearLines(ws) ==
  LET Line(r) == app_norm(JoinSp([k \in 1..Len(r.words) |-> r.words[k].text]))
      Lines(rs) == [k \in 1..Len(rs) |-> Line(rs[k])]
  IN Lines(GroupRows(ws, 1, <<>>, y_tolerance))

\* the textual fallback of parse_pdf: the records it appends
BofaFallback(ws, period, utcnow_year) ==
  LET Closed(st) ==
        IF st.current_bofa # <<>> /\ st.current_bofa[1].amount # NoneF
        THEN Append(st.results, st.current_bofa[1]) ELSE st.results
      Emitted(st) == BofaEmit(Closed(st), 1, period)
  IN Emitted(BofaLines([current_bofa |-> <<>>, results |-> <<>>], LinearLines(ws), 1,
                       IF period # <<>> THEN PeriodEndYear(period[1]) ELSE utcnow_year))

\* the statements of parse_pdf after the loop over the rows
AppFinishStep(a, ws, utcnow_year) ==
  LET Fallback(b) ==
        IF b.txs = <<>> /\ Contains(Lower(b.text_blob), "bank of america")
        THEN [b EXCEPT !.txs = BofaFallback(ws, b.period, utcnow_year), !.pc = "done"]
        ELSE [b EXCEPT !.pc = "done"]
  IN Fallback(flush_current(a, utcnow_year))

(***************************************************************************)
(* The parse loops as steps on the locals of one invocation.  A view v is  *)
(* the record of an invocation's locals together with its inputs:          *)
(*   kind, lines          the parser class and extract_lines(pdf_bytes)    *)
(*   year                 detect_year(full_text)                           *)
(*   pc                   "start", "outer", "inner" or "done"              *)
(*   i, j                 the line indices of the loops (from 1)           *)
(*   block, date          the indices of the lines of the open block and   *)
(*                        its anchor date                                  *)
(*   current_section, in_legal_section                                     *)
(*   results              the records appended so far                      *)
(*   blocks               every block handed to the block processing, as   *)
(*                        the indices of its lines                         *)
(*   contexts             the section_context ChaseParser.parse handed to  *)
(*                        the block processing with each block             *)
(***************************************************************************)
BlockLines(lines, block) == [k \in 1..Len(block) |-> lines[block[k]]]

\* the statements before the loop of parse
StartStep(v, utcnow_year) ==
  [v EXCEPT !.year = detect_year(extract_full_text(v.lines), utcnow_year),
            !.results = <<>>, !.current_section = None, !.in_legal_section = FALSE,
            !.i = 1, !.pc = "outer"]

\* the loop condition fails: return results
ReturnStep(v) == [v EXCEPT !.pc = "done"]

\* the lines inside a legal section are not skipped
SkipInsideLegalNever(in_legal_section) == FALSE

\* "if in_legal_section:" of the outer loop: skip everything inside legal
\* sections
SkipInsideLegal(in_legal_section) == in_legal_section

\* every detected section becomes the current section
ChaseSectionUpdateAlways(current_section, section_detected) == section_detected

\* "if section_detected != 'transactions': current_section = section_detected":
\* the generic section does not override a specific one
ChaseSectionUpdate(current_section, section_detected) ==
  IF section_detected # "transactions" THEN section_detected ELSE current_section

\* one iteration of the outer loop of ChaseParser.parse, up to the inner loop
ChaseOuterStep(v) ==
  LET skip == [v EXCEPT !.i = v.i + 1]
      Anchor(date) == IF date = None THEN skip
                      ELSE [v EXCEPT !.block = <<v.i>>, !.date = date, !.j = v.i + 1, !.pc = "inner"]
      Section(line, section_detected) ==
        IF section_detected # None
        THEN [skip EXCEPT !.current_section = ChaseSectionUpdate(v.current_section, section_detected)]
        ELSE IF ChaseParser_is_noise_line(line) THEN skip
        ELSE Anchor(ChaseParser_extract_date(line, v.year))
      Line(line) ==
        IF Strip(line) = "" THEN skip
        ELSE IF ChaseParser_is_legal_section_start(line) THEN [skip EXCEPT !.in_legal_section = TRUE]
        ELSE IF v.in_legal_section /\ ChaseParser_is_legal_section_end(line) THEN [skip EXCEPT !.in_legal_section = FALSE]
        ELSE IF SkipInsideLegal(v.in_legal_section) THEN skip
        ELSE Section(line, ChaseParser_detect_section(line))
  IN Line(v.lines[v.i])

\* the break conditions without the test for the next date
ChaseInnerBreakNoDate(next_line, year) ==
  \/ ChaseParser_is_legal_section_start(next_line)
  \/ ChaseParser_is_section_header(next_line)

\* the break conditions without the test for a section header
ChaseInnerBreakNoHeader(next_line, year) ==
  \/ ChaseParser_is_legal_section_start(next_line)
  \/ ChaseParser_extract_date(next_line, year) # None

\* the break conditions of the inner loop of ChaseParser.parse
ChaseInnerBreak(next_line, year) ==
  \/ ChaseParser_is_legal_section_start(next_line)
  \/ ChaseParser_extract_date(next_line, year) # None
  \/ ChaseParser_is_section_header(next_line)

\* the inner loop goes on with the line j
ChaseInnerContinues(v) == v.j <= Len(v.lines) /\ ~ChaseInnerBreak(v.lines[v.j], v.year)

\* every line that is not blank is added to the block
ChaseKeepsLineNoisy(next_line) == Strip(next_line) # ""

\* "if next_line and not self._is_noise_line(next_line)" of the inner loop
ChaseKeepsLine(next_line) == Strip(next_line) # "" /\ ~ChaseParser_is_noise_line(next_line)

\* one iteration of the inner loop that does not break
ChaseAppendStep(v) ==
  LET Take(next_line) ==
        IF ChaseKeepsLine(next_line)
        THEN [v EXCEPT !.block = Append(v.block, v.j), !.j = v.j + 1]
        ELSE [v EXCEPT !.j = v.j + 1]
  IN Take(v.lines[v.j])

\* the block that is open at the end of the lines is dropped
ChaseCloseStepDropsLast(v) ==
  IF v.j > Len(v.lines) THEN [v EXCEPT !.block = <<>>, !.i = v.j, !.pc = "outer"]
  ELSE [v EXCEPT !.results = v.results \o ChaseParser_process_transaction_block(BlockLines(v.lines, v.block), v.date, v.current_section, v.year),
                 !.blocks = Append(v.blocks, v.block), !.contexts = Append(v.contexts, v.current_section),
                 !.block = <<>>, !.i = v.j, !.pc = "outer"]

\* the inner loop is left: the block is processed and the outer loop resumes at j
ChaseCloseStep(v) ==
  [v EXCEPT !.results = v.results \o ChaseParser_process_transaction_block(BlockLines(v.lines, v.block), v.date, v.current_section, v.year),
            !.blocks = Append(v.blocks, v.block), !.contexts = Append(v.contexts, v.current_section),
            !.block = <<>>, !.i = v.j, !.pc = "outer"]

\* one iteration of the outer loop of GenericParser.parse, up to the inner loop
GenericOuterStep(v) ==
  LET Anchor(date) == IF date = None THEN [v EXCEPT !.i = v.i + 1]
                      ELSE [v EXCEPT !.block = <<v.i>>, !.date = date, !.j = v.i + 1, !.pc = "inner"]
  IN Anchor(GenericDate(v.lines[v.i], v.year))

\* the condition of the inner loop of GenericParser.parse
GenericInnerContinues(v) == v.j <= Len(v.lines) /\ GenericDate(v.lines[v.j], v.year) = None

GenericAppendStep(v) == [v EXCEPT !.block = Append(v.block, v.j), !.j = v.j + 1]

GenericCloseStep(v) ==
  [v EXCEPT !.results = v.results \o GenericBlockRecord(BlockLines(v.lines, v.block), v.date),
            !.blocks = Append(v.blocks, v.block), !.block = <<>>, !.i = v.j, !.pc = "outer"]

(***************************************************************************)
(* parsers/valley.py                                                       *)
(***************************************************************************)
\* \d{1,2}/\d{1,2}\b tried at position k
ValleyDateAt(s, k) ==
  LET Day(n1, n2) == n1 >= 1 /\ Ch(s, k + n1) = "/" /\ n2 >= 1 /\ WordBoundary(s, k + n1 + 1 + n2)
      Month(n1) == Day(n1, DigitRun(s, k + n1 + 1, 2))
  IN Month(DigitRun(s, k, 2))

\* RE_DATE_START.match(s): ^\s*\d{1,2}/\d{1,2}\b
RE_DATE_START_match(s) == ValleyDateAt(s, 1 + WsRun(s, 1))

\* the letters, digits and the blank of [A-Z0-9 ] under re.I
ValleyCodeChars == AsciiLetters \cup Digits \cup {" "}

\* IGNORE_RE.search(s): every pattern of IGNORE_PATTERNS starts with ^, and
\* re.I makes the letters match in either case; ls is s in lower case
IGNORE_RE_search(s, ls) ==
  LET Whole(head, tail) ==
        /\ StartsWith(ls, head)
        /\ \E a \in 0..WsRun(ls, Len(head) + 1) : \E amp \in {"", "&"} :
             /\ MatchAt(ls, Len(head) + 1 + a, amp)
             /\ SubSeq(ls, Len(head) + 1 + a + Len(amp) + WsRun(ls, Len(head) + 1 + a + Len(amp)), Len(ls)) = tail
      Continued == StartsWith(ls, "transactions")
                   /\ SubSeq(ls, 13 + WsRun(ls, 13), Len(ls)) \in {"", "(continued)"}
                   /\ (WsRun(ls, 13) = 0 \/ 13 + WsRun(ls, 13) <= Len(ls))
      Codes(n) == n >= 5 /\ Ch(s, n + 1) \in {" ", "-"} /\ DigitRun(s, n + 2, 4) = 4
      Letters == /\ Len(s) >= 9
                 /\ \A k \in 1..3 : Ch(s, k) \in AsciiLetters
                 /\ \A k \in 4..Len(s) : Ch(s, k) \in ValleyCodeChars
  IN \/ StartsWith(ls, "page") /\ WordBoundary(s, 5)
     \/ Continued
     \/ Whole("withdrawals", "other debits")
     \/ Whole("deposits", "other credits")
     \/ StartsWith(ls, "summary for the period:")
     \/ StartsWith(ls, "beginning balance") /\ WordBoundary(s, 18)
     \/ StartsWith(ls, "ending balance") /\ WordBoundary(s, 15)
     \/ StartsWith(ls, "account number")
     \/ StartsWith(ls, "statement ending:") \/ StartsWith(ls, "statement date:")
     \/ StartsWith(ls, "last statement:")
     \/ StartsWith(ls, "d:\\")
     \/ Codes(DigitRun(s, 1, Len(s)))
     \/ Letters

\* looks_like_amount_line(s)
looks_like_amount_line(s) == Contains(s, "$") /\ RE_AMOUNT_findall(s) # <<>>

RECURSIVE ValleySplit(_, _, _)
\* SPLIT_ON_NEXT_DATE.split(ln): ln is cut before every position where
\* \b\d{1,2}/\d{1,2}\b matches; the pieces from the piece that starts at a on,
\* k the next position to try
ValleySplit(ln, a, k) ==
  IF k > Len(ln) THEN <<SubSeq(ln, a, Len(ln))>>
  ELSE IF WordBoundary(ln, k) /\ ValleyDateAt(ln, k)
       THEN <<SubSeq(ln, a, k - 1)>> \o ValleySplit(ln, k, k + 1)
  ELSE ValleySplit(ln, a, k + 1)

RECURSIVE ValleyLines(_)
\* the lines of ValleyParser.parse: the raw lines without those IGNORE_RE
\* finds, each cut before its dates, the pieces stripped and the empty ones
\* left out
ValleyLines(raw_lines) ==
  LET Parts(ln) == SelectSeq([k \in 1..Len(ValleySplit(ln, 1, 1)) |-> Strip(ValleySplit(ln, 1, 1)[k])],
                             LAMBDA q : q # "")
      Line(ln) == IF IGNORE_RE_search(ln, Lower(ln)) THEN <<>> ELSE Parts(ln)
  IN IF raw_lines = <<>> THEN <<>> ELSE Line(raw_lines[1]) \o ValleyLines(Tail(raw_lines))

\* pick_amount([tokens[0]], prefer_first=True) for the tokens of a line
ValleyFirstAmount(tokens) == IF tokens = <<>> THEN NoneF ELSE pick_amount(<<tokens[1]>>, TRUE)

\* one iteration of the outer loop of ValleyParser.parse, up to the inner loop
ValleyOuterStep(v) ==
  LET skip == [v EXCEPT !.i = v.i + 1]
      Here(line) == IF looks_like_amount_line(line) THEN ValleyFirstAmount(RE_AMOUNT_findall(line)) ELSE NoneF
      Anchor(line, date_iso) ==
        IF date_iso = None THEN skip
        ELSE [v EXCEPT !.block = <<v.i>>, !.date = date_iso, !.amount = Here(line), !.j = v.i + 1, !.pc = "inner"]
      Line(line) == IF ~RE_DATE_START_match(line) THEN skip ELSE Anchor(line, parse_mmdd_token(line, v.year))
  IN Line(v.lines[v.i])

\* the inner loop of ValleyParser.parse goes on with the line j: no amount
\* yet, a line is left and it does not start with a date
ValleyInnerContinues(v) ==
  v.pc = "inner" /\ v.amount = NoneF /\ v.j <= Len(v.lines) /\ ~RE_DATE_START_match(v.lines[v.j])

\* one iteration of the inner loop that does not meet a date: a noise line is
\* passed over, a line with an amount ends the loop and stays out of the
\* description, any other line joins the description
ValleyScanStep(v) ==
  LET Next(nxt) ==
        IF IGNORE_RE_search(nxt, Lower(nxt)) THEN [v EXCEPT !.j = v.j + 1]
        ELSE IF looks_like_amount_line(nxt) /\ RE_AMOUNT_findall(nxt) # <<>>
             THEN [v EXCEPT !.amount = ValleyFirstAmount(RE_AMOUNT_findall(nxt)), !.j = v.j + 1, !.pc = "leave"]
        ELSE [v EXCEPT !.block = Append(v.block, v.j), !.j = v.j + 1]
  IN Next(v.lines[v.j])

\* the outer loop goes on at the line i
ValleyResumeStays(i, j) == i

\* "i = j if j > i else i + 1"
ValleyResume(i, j) == IF j > i THEN j ELSE i + 1

\* the statements of ValleyParser.parse after the inner loop
ValleyCloseStep(v) ==
  LET Record(amt, block_text) ==
        IF amt = NoneF THEN <<>>
        ELSE <<[date |-> v.date, description |-> clean_desc_remove_amount(block_text),
                amount |-> amt[1], direction |-> None]>>
      Fallback(block_text) ==
        IF v.j > v.i + 1 THEN ValleyFirstAmount(RE_AMOUNT_findall(block_text)) ELSE NoneF
      Close(block_text) ==
        IF v.amount # NoneF
        THEN [v EXCEPT !.results = v.results \o Record(v.amount, block_text), !.i = v.j]
        ELSE [v EXCEPT !.results = v.results \o Record(Fallback(block_text), block_text),
                       !.i = ValleyResume(v.i, v.j)]
  IN [Close(JoinSp(BlockLines(v.lines, v.block))) EXCEPT
        !.blocks = Append(v.blocks, v.block), !.block = <<>>, !.amount = NoneF, !.pc = "outer"]

\* the step an invocation takes next when it runs alone
SoloStep(v) ==
  IF v.pc = "outer" /\ v.i > Len(v.lines) THEN ReturnStep(v)
  ELSE IF v.kind = "chase" THEN
         IF v.pc = "outer" THEN ChaseOuterStep(v)
         ELSE IF ChaseInnerContinues(v) THEN ChaseAppendStep(v) ELSE ChaseCloseStep(v)
  ELSE IF v.kind = "valley" THEN
         IF v.pc = "outer" THEN ValleyOuterStep(v)
         ELSE IF ValleyInnerContinues(v) THEN ValleyScanStep(v) ELSE ValleyCloseStep(v)
  ELSE IF v.pc = "outer" THEN GenericOuterStep(v)
       ELSE IF GenericInnerContinues(v) THEN GenericAppendStep(v) ELSE GenericCloseStep(v)

RECURSIVE RunAlone(_)
\* the final view of an invocation that runs from the view v without any
\* other invocation
RunAlone(v) == IF v.pc = "done" THEN v ELSE RunAlone(SoloStep(v))

\* the view of an invocation before its first statement
FreshView(kind, lines) ==
  [kind |-> kind, lines |-> lines, year |-> 0, pc |-> "start", i |-> 1, j |-> 1, block |-> <<>>, date |-> None,
   current_section |-> None, in_legal_section |-> FALSE, results |-> <<>>, blocks |-> <<>>, contexts |-> <<>>,
   amount |-> NoneF]

\* parse(pdf_bytes, full_text) run to its end with detect_year's result year
ParseAlone(kind, lines, year) ==
  RunAlone([FreshView(kind, lines) EXCEPT !.year = year, !.pc = "outer"]).results

(***************************************************************************)
(* parsers/__init__.py: the detection of the bank.  The text of a pdf is a *)
(* record [pad, text]: pad blanks followed by text, which lets a text      *)
(* reach the limit of detect_bank_from_text without being written out.     *)
(***************************************************************************)
DetectLimit == 20000

\* full_text[:n]
TextPrefix(ft, n) ==
  IF ft.pad >= n THEN [pad |-> n, text |-> ""]
  ELSE [pad |-> ft.pad, text |-> SubSeq(ft.text, 1, IF Len(ft.text) < n - ft.pad THEN Len(ft.text) ELSE n - ft.pad)]

\* the characters of the text ft from its last blank of the pad on, in
\* lower case: no pattern of DETECTION starts with a blank, so a match is in
\* this part
SearchedText(ft) == (IF ft.pad > 0 THEN " " ELSE "") \o Lower(ft.text)

\* re.search(r"\bp\b", t, flags=re.I) for a literal p in lower case
BoundedSearch(t, p) ==
  \E i \in 1..(Len(t) - Len(p) + 1) : MatchAt(t, i, p) /\ WordBoundary(t, i) /\ WordBoundary(t, i + Len(p))

\* re.search(r"w1\s+...wn", t, flags=re.I)
SpacedSearch(t, words) == \E i \in 1..Len(t) : WordsEnd(t, i, words) > 0

DETECTION_keys == <<"bofa", "chase", "ifb", "valley", "mercury", "pnb", "wf", "citi", "truist">>

\* any(re.search(p, t, flags=re.I) for p in pats) for the entry n of
\* DETECTION, on the lower-cased text t
DETECTION_match(n, t) ==
  CASE n = 1 -> \/ BoundedSearch(t, "bank of america") \/ Contains(t, "bankofamerica.com")
                \/ BoundedSearch(t, "bofa") \/ BoundedSearch(t, "business advantage")
                \/ Contains(t, "1.888.business")
    [] n = 2 -> \/ Contains(t, "chase.com") \/ BoundedSearch(t, "chase mobile")
                \/ BoundedSearch(t, "chase debit card") \/ BoundedSearch(t, "chase total checking")
                \/ BoundedSearch(t, "chase savings")
    [] n = 3 -> \/ SpacedSearch(t, <<"international", "finance", "bank">>)
                \/ BoundedSearch(t, "ifb bus checking") \/ BoundedSearch(t, "ifbbank.com")
    [] n = 4 -> \/ BoundedSearch(t, "valley") \/ Contains(t, "valley national bank")
                \/ BoundedSearch(t, "valley.com")
    [] n = 5 -> \/ BoundedSearch(t, "mercury") \/ Contains(t, "choice financial group")
                \/ Contains(t, "help@mercury.com")
    [] n = 6 -> \/ Contains(t, "pacific national bank") \/ BoundedSearch(t, "p.o. box 012620, miami")
                \/ BoundedSearch(t, "acct ending")
    [] n = 7 -> \/ BoundedSearch(t, "wells fargo") \/ Contains(t, "wellsfargo.com")
                \/ BoundedSearch(t, "navigate business checking")
                \/ BoundedSearch(t, "initiate business checking")
    [] n = 8 -> \/ BoundedSearch(t, "citibusiness") \/ BoundedSearch(t, "citibank")
                \/ BoundedSearch(t, "citi")
    [] n = 9 -> \/ BoundedSearch(t, "truist") \/ Contains(t, "truist.com")
                \/ BoundedSearch(t, "zelle business payment")

\* the loop of detect_bank_from_text over DETECTION, on the searched text t
DetectedKey(t) ==
  LET Key(n) == IF n = 0 THEN "generic" ELSE DETECTION_keys[n]
  IN Key(FirstPos(LAMBDA k : DETECTION_match(k, t), 1, Len(DETECTION_keys)))

\* detect_bank_from_text without the cut at DetectLimit
detect_bank_from_text_whole(ft) ==
  IF ft.pad = 0 /\ ft.text = "" THEN "generic" ELSE DetectedKey(SearchedText(ft))

detect_bank_from_text(ft) ==
  IF ft.pad = 0 /\ ft.text = "" THEN "generic" ELSE DetectedKey(SearchedText(TextPrefix(ft, DetectLimit)))

(***************************************************************************)
(* parsers/__init__.py: REGISTRY.  The outcome of a call of parse is a     *)
(* record: raised is None when the call returned and the name of the       *)
(* exception when one escaped it, results is the list it returned.  The    *)
(* model has the classes of the keys generic, chase and truist.            *)
(***************************************************************************)
REGISTRY_keys == {"generic", "chase", "truist"}

\* TruistParser.parse: its second statement, year = self.infer_year(full_text),
\* raises AttributeError, for neither TruistParser nor BaseBankParser defines
\* infer_year
TruistParser_parse(lines, utcnow_year) == [raised |-> "AttributeError", results |-> <<>>]

\* REGISTRY[key]().parse(pdf_bytes, full_text) where extract_lines(pdf_bytes)
\* is lines
REGISTRY_parse(key, lines, utcnow_year) ==
  IF key = "truist" THEN TruistParser_parse(lines, utcnow_year)
  ELSE [raised |-> None, results |-> RunAlone(StartStep(FreshView(key, lines), utcnow_year)).results]

(***************************************************************************)
(* State                                                                   *)
(***************************************************************************)
VARIABLES
  doc,               \* per invocation: the parser class and the extracted lines
  frame,             \* per invocation: the locals of parse
  current_section,   \* per cell: the local current_section
  in_legal_section,  \* per cell: the local in_legal_section
  clock,             \* the year of datetime.utcnow()
  last,              \* the invocation that took the last step (0: none)
  block,             \* the argument block of a call on one block
  section_context,   \* the argument section_context of a call
  resolved,          \* the result of _extract_amount_from_block_improved
  tx,                \* the result of _process_transaction_block
  description,       \* the argument description of a direction classifier
  amount,            \* the argument amount of a direction classifier
  verdict,           \* per classifier: the direction it returned
  txs,               \* the argument of normalize_transactions
  normalized,        \* the result of normalize_transactions
  page_words,        \* the words extract_words returned for the page of the pdf
  app,               \* the locals of parse_pdf
  full_text,         \* the argument of detect_bank_from_text
  bank,              \* the result of detect_bank_from_text
  line,              \* the argument of a date recognizer
  dated,             \* per date recognizer: the date it returned
  profile,           \* the key of REGISTRY and the lines of a call of parse
  parsed,            \* the outcome of that call of parse
  amt_str,           \* the amount token handed to a resolver of amounts
  value              \* per resolver of amounts: the amount it returned

parseVars == <<doc, frame, current_section, in_legal_section, last>>

callVars == <<block, section_context, resolved, tx, description, amount, verdict,
              txs, normalized>>

appVars == <<page_words, app>>

profileVars == <<full_text, bank, line, dated, profile, parsed>>

amountVars == <<amt_str, value>>

vars == <<doc, frame, current_section, in_legal_section, clock, last,
          block, section_context, resolved, tx, description, amount, verdict,
          txs, normalized, page_words, app,
          full_text, bank, line, dated, profile, parsed, amt_str, value>>

\* the result of a call: none before the call returns, then the value it
\* returned
Pending == <<>>

Returned(v) == <<v>>

\* the longest document of SpecParse
MaxLines == 3

\* the year of the clock when the model starts and the number of new years
\* it can pass
ClockStart == 2026

MaxTicks == 1

Procs == {1, 2}

Kinds == {"chase", "generic"}

\* the lines the documents are made of: for ChaseParser section headers,
\* transaction rows, a continuation line, a noise line, the start and the end
\* of a legal section and a row with a legal marker; for GenericParser rows
\* with a short and with a long date and a continuation line
Vocabulary(kind) ==
  IF kind = "chase" THEN
    { "DEPOSITS AND ADDITIONS",
      "ELECTRONIC WITHDRAWALS",
      "TRANSACTION DETAIL",
      "01/05 Transfer 1,500.00",
      "01/07 Cafe 12.50",
      "Ref 4821 Main St",
      "Page 2 of 4",
      "In case of errors or questions about your electronic funds transfers",
      "JPMorgan Chase Bank, N.A. Miembro FDIC",
      "01/09 call us at 5.00" }
  ELSE
    { "01/05 Transfer 1,500.00",
      "01/07 Cafe 12.50",
      "Ref 4821 Main St",
      "Jan 12, 2024 Wire 40.00" }

\* the documents of at most n lines
Documents(kind, n) == UNION {[1..k -> Vocabulary(kind)] : k \in 0..n}

\* the invocations that run side by side
ConcInputs == {
  [kind |-> "chase", lines |-> <<"DEPOSITS AND ADDITIONS", "01/05 Transfer 1,500.00">>],
  [kind |-> "chase", lines |-> <<"ELECTRONIC WITHDRAWALS", "01/05 Transfer 1,500.00">>],
  [kind |-> "chase", lines |->
     <<"In case of errors or questions about your electronic funds transfers", "01/05 Transfer 1,500.00">>],
  [kind |-> "chase", lines |-> <<"01/05 Transfer 1,500.00", "Ref 4821 Main St">>],
  [kind |-> "generic", lines |-> <<"01/05 Transfer 1,500.00", "Ref 4821 Main St">>],
  [kind |-> "generic", lines |-> <<"Jan 12, 2024 Wire 40.00", "01/07 Cafe 12.50">>] }

FrameFields == {"year", "pc", "i", "j", "block", "date", "results", "blocks", "contexts", "amount"}

\* current_section and in_legal_section kept in one place for all invocations
SectionCellShared(p) == 1

\* the cell that holds current_section and in_legal_section of invocation p:
\* they are locals of parse, so every invocation has its own
SectionCell(p) == p

View(p) ==
  [f \in FrameFields |-> frame[p][f]] @@
  [kind |-> doc[p].kind, lines |-> doc[p].lines,
   current_section |-> current_section[SectionCell(p)],
   in_legal_section |-> in_legal_section[SectionCell(p)]]

\* invocation p takes the step that leads to the view w
Becomes(p, w) ==
  /\ frame' = [frame EXCEPT ![p] = [f \in FrameFields |-> w[f]]]
  /\ current_section' = [current_section EXCEPT ![SectionCell(p)] = w.current_section]
  /\ in_legal_section' = [in_legal_section EXCEPT ![SectionCell(p)] = w.in_legal_section]
  /\ last' = p
  /\ UNCHANGED <<doc, clock, callVars, appVars, profileVars, amountVars>>

FreshFrame == [f \in FrameFields |-> FreshView("chase", <<>>)[f]]

DoneFrame == [FreshFrame EXCEPT !.pc = "done"]

\* no direction classifier has returned
NoVerdict == [bofa |-> Pending, chase |-> Pending, decide |-> Pending, classify |-> Pending]

\* no recognizer of dates has returned
NoDates == [chase |-> Pending, mmdd_token |-> Pending, long_date |-> Pending, mmmdd |-> Pending, app_mmdd |-> Pending]

\* no call of detect_bank_from_text, of a date recognizer or of the parse of
\* a profile is under way
IdleProfile ==
  /\ full_text = [pad |-> 0, text |-> ""]
  /\ bank = Pending
  /\ line = ""
  /\ dated = NoDates
  /\ profile = [key |-> "generic", lines |-> <<>>]
  /\ parsed = Pending

\* no resolver of amounts has returned
NoValue == [pick |-> Pending, chase |-> Pending, citi |-> Pending]

\* no call of a resolver of amounts on a token is under way
IdleAmount ==
  /\ amt_str = ""
  /\ value = NoValue

\* no call on a block, a description or a list is under way
IdleCalls ==
  /\ block = <<>>
  /\ section_context = None
  /\ resolved = Pending
  /\ tx = Pending
  /\ description = ""
  /\ amount = 0
  /\ verdict = NoVerdict
  /\ txs = <<>>
  /\ normalized = Pending

\* the locals of parse_pdf while no request is served
IdleLocals ==
  [pc |-> "idle", rows |-> <<>>, i |-> 1, text_blob |-> "", period |-> <<>>, right_x |-> NoneF,
   current |-> <<>>, txs |-> <<>>]

\* no request to /parse is under way
IdleApp ==
  /\ page_words = <<>>
  /\ app = IdleLocals

\* no invocation of parse is under way
IdleParse ==
  /\ doc = [p \in Procs |-> [kind |-> "chase", lines |-> <<>>]]
  /\ frame = [p \in Procs |-> DoneFrame]
  /\ current_section = [c \in Procs |-> None]
  /\ in_legal_section = [c \in Procs |-> FALSE]
  /\ last = 0

(***************************************************************************)
(* Actions of the parsers                                                  *)
(***************************************************************************)
Start(p) ==
  /\ frame[p].pc = "start"
  /\ Becomes(p, StartStep(View(p), clock))

Return(p) ==
  /\ frame[p].pc = "outer"
  /\ frame[p].i > Len(doc[p].lines)
  /\ Becomes(p, ReturnStep(View(p)))

ChaseOuter(p) ==
  /\ doc[p].kind = "chase"
  /\ frame[p].pc = "outer"
  /\ frame[p].i <= Len(doc[p].lines)
  /\ Becomes(p, ChaseOuterStep(View(p)))

ChaseAppend(p) ==
  /\ doc[p].kind = "chase"
  /\ frame[p].pc = "inner"
  /\ ChaseInnerContinues(View(p))
  /\ Becomes(p, ChaseAppendStep(View(p)))

ChaseClose(p) ==
  /\ doc[p].kind = "chase"
  /\ frame[p].pc = "inner"
  /\ ~ChaseInnerContinues(View(p))
  /\ Becomes(p, ChaseCloseStep(View(p)))

GenericOuter(p) ==
  /\ doc[p].kind = "generic"
  /\ frame[p].pc = "outer"
  /\ frame[p].i <= Len(doc[p].lines)
  /\ Becomes(p, GenericOuterStep(View(p)))

GenericAppend(p) ==
  /\ doc[p].kind = "generic"
  /\ frame[p].pc = "inner"
  /\ GenericInnerContinues(View(p))
  /\ Becomes(p, GenericAppendStep(View(p)))

GenericClose(p) ==
  /\ doc[p].kind = "generic"
  /\ frame[p].pc = "inner"
  /\ ~GenericInnerContinues(View(p))
  /\ Becomes(p, GenericCloseStep(View(p)))

ValleyOuter(p) ==
  /\ doc[p].kind = "valley"
  /\ frame[p].pc = "outer"
  /\ frame[p].i <= Len(doc[p].lines)
  /\ Becomes(p, ValleyOuterStep(View(p)))

ValleyScan(p) ==
  /\ doc[p].kind = "valley"
  /\ ValleyInnerContinues(View(p))
  /\ Becomes(p, ValleyScanStep(View(p)))

ValleyClose(p) ==
  /\ doc[p].kind = "valley"
  /\ frame[p].pc \in {"inner", "leave"}
  /\ ~ValleyInnerContinues(View(p))
  /\ Becomes(p, ValleyCloseStep(View(p)))

\* a new year begins
Tick ==
  /\ clock < ClockStart + MaxTicks
  /\ clock' = clock + 1
  /\ last' = 0
  /\ UNCHANGED <<doc, frame, current_section, in_legal_section, callVars, appVars, profileVars, amountVars>>

ParserStep(p) ==
  \/ Start(p) \/ Return(p)
  \/ ChaseOuter(p) \/ ChaseAppend(p) \/ ChaseClose(p)
  \/ GenericOuter(p) \/ GenericAppend(p) \/ GenericClose(p)

(***************************************************************************)
(* SpecParse: one invocation of parse on any document of at most MaxLines  *)
(* lines.                                                                  *)
(***************************************************************************)
InitParse ==
  /\ \E kind \in Kinds : \E lines \in Documents(kind, MaxLines) :
       doc = [p \in Procs |-> IF p = 1 THEN [kind |-> kind, lines |-> lines]
                                        ELSE [kind |-> "chase", lines |-> <<>>]]
  /\ frame = [p \in Procs |-> IF p = 1 THEN FreshFrame ELSE DoneFrame]
  /\ current_section = [c \in Procs |-> None]
  /\ in_legal_section = [c \in Procs |-> FALSE]
  /\ clock = ClockStart
  /\ last = 0
  /\ IdleCalls
  /\ IdleApp
  /\ IdleAmount
  /\ IdleProfile

NextParse == \E p \in Procs : ParserStep(p)

SpecParse == InitParse /\ [][NextParse]_vars

(***************************************************************************)
(* SpecConc: two invocations of parse whose steps interleave, while the    *)
(* clock may pass a new year.                                              *)
(***************************************************************************)
InitConc ==
  /\ doc \in [Procs -> ConcInputs]
  /\ frame = [p \in Procs |-> FreshFrame]
  /\ current_section = [c \in Procs |-> None]
  /\ in_legal_section = [c \in Procs |-> FALSE]
  /\ clock = ClockStart
  /\ last = 0
  /\ IdleCalls
  /\ IdleApp
  /\ IdleAmount
  /\ IdleProfile

NextConc == (\E p \in Procs : ParserStep(p)) \/ Tick

SpecConc == InitConc /\ [][NextConc]_vars

(***************************************************************************)
(* SpecResolve: _extract_amount_from_block_improved and                    *)
(* _process_transaction_block called on one block.                         *)
(***************************************************************************)
LatitudeLine == "06/04 Card Purchase 06/03 Latitude On The Riv 866.800.4656 NE Card 3116 1,254.81"

BookTransferLine == "12/03 Book Transfer Credit B/O: Celio Business Services Corp Sheridan WY 82801-6317 US Trn: 3340774338Es"

AchLine == "03/06 Orig CO Name:Sanaa Debs Orig ID:T941687665 Desc Date:240305 CO Entry Descr:Sender Sec:CIE Trace#:113000021971631 Eed:240305 Ind ID:Argentradeco Ll Ind Name:705583508 $3,000.00"

WasteMgmtLine == "06/17 Card Purchase 06/14 Waste Mgmt Wm Ezpay 866-834-2080 TX Card 3116 2,487.82"

\* the lines that open a block: they start with a date
AnchorLines ==
  { LatitudeLine, BookTransferLine, AchLine, WasteMgmtLine,
    "01/05 Transfer 1,500.00",
    "01/07 Cafe",
    "01/01 Card 01 0.50" }

\* the lines that follow the anchor in a block
FollowingLines == { "68,795.00", "$12.50", "Ref 4821 Main St", "(25.00)" }

\* the blocks parse hands to the block processing: an anchor line, alone or
\* with one following line
ResolveBlocks == {<<a>> : a \in AnchorLines} \cup {<<a, f>> : a \in AnchorLines, f \in FollowingLines}

InitResolve ==
  /\ block \in ResolveBlocks
  /\ section_context \in {None, "deposits", "withdrawals"}
  /\ resolved = Pending
  /\ tx = Pending
  /\ description = ""
  /\ amount = 0
  /\ verdict = NoVerdict
  /\ txs = <<>>
  /\ normalized = Pending
  /\ clock = ClockStart
  /\ IdleParse
  /\ IdleApp
  /\ IdleAmount
  /\ IdleProfile

\* amount = self._extract_amount_from_block_improved(block, " ".join(block))
ExtractAmount ==
  /\ block # <<>>
  /\ resolved = Pending
  /\ resolved' = Returned(ChaseParser_extract_amount_from_block_improved(block, JoinSp(block)))
  /\ UNCHANGED <<block, section_context, tx, description, amount, verdict, txs, normalized>>
  /\ UNCHANGED <<parseVars, appVars, profileVars, clock, amountVars>>

\* self._process_transaction_block(block, date, section_context, year) with
\* the date of the anchor line; the result is the list of the records it yields
ProcessBlock ==
  /\ block # <<>>
  /\ tx = Pending
  /\ tx' = Returned(ChaseParser_process_transaction_block(block, ChaseParser_extract_date(block[1], clock), section_context, clock))
  /\ UNCHANGED <<block, section_context, resolved, description, amount, verdict, txs, normalized>>
  /\ UNCHANGED <<parseVars, appVars, profileVars, clock, amountVars>>

NextResolve == ExtractAmount \/ ProcessBlock

SpecResolve == InitResolve /\ [][NextResolve]_vars

(***************************************************************************)
(* SpecDirection: one call of a direction classifier (of BOFAParser, of    *)
(* ChaseParser, decide_direction or classify_direction) on a description.  *)
(***************************************************************************)
DescriptionHeads ==
  { "WIRE TYPE:WIRE IN DATE:240105 ORIG:ACME",
    "WIRE TYPE: WIRE IN",
    "WIRE TYPE:WIRE OUT DATE:240105 BNF:ACME",
    "WIRE TYPE: WIRE OUT",
    "WIRE TYPE:INTL OUT",
    "Zelle payment from Ana",
    "Online Banking transfer",
    "ReversiÓn de cargo miscelÁneo. Fee reversal",
    "Transferencia electrÓnica bancaria entrante. Book transfer Credit",
    "Orig CO Name:Sanaa Debs",
    "Orig CO Name:Company ABC Descr:Sender Payment for services",
    "Orig CO Name:Fpl Direct Debit CO Entry Descr:Elec Pymt Sec:Web",
    "Card Purchase Lyft",
    "Payroll" }

DescriptionTails == { "", "fee", "purchase", "deposit", "WIRE TYPE:WIRE IN", "WIRE TYPE: WIRE OUT" }

Descriptions == {IF t = "" THEN h ELSE h \o " " \o t : h \in DescriptionHeads, t \in DescriptionTails}

InitDirection ==
  /\ description \in Descriptions
  /\ section_context \in {None, "deposits", "withdrawals", "fees"}
  /\ amount \in {0 - 1500, 0, 4000}
  /\ verdict = NoVerdict
  /\ block = <<>>
  /\ resolved = Pending
  /\ tx = Pending
  /\ txs = <<>>
  /\ normalized = Pending
  /\ clock = ClockStart
  /\ IdleParse
  /\ IdleApp
  /\ IdleAmount
  /\ IdleProfile

\* BOFAParser()._determine_direction(description, section_context)
BofaDirection ==
  /\ description # ""
  /\ verdict = NoVerdict
  /\ verdict' = [verdict EXCEPT !.bofa = Returned(BOFAParser_determine_direction(description, section_context))]
  /\ UNCHANGED <<block, section_context, resolved, tx, description, amount, txs, normalized>>
  /\ UNCHANGED <<parseVars, appVars, profileVars, clock, amountVars>>

\* ChaseParser()._determine_direction(description, section_context, amount, description)
ChaseDirection ==
  /\ description # ""
  /\ verdict = NoVerdict
  /\ verdict' = [verdict EXCEPT !.chase = Returned(ChaseParser_determine_direction(description, section_context, amount, description))]
  /\ UNCHANGED <<block, section_context, resolved, tx, description, amount, txs, normalized>>
  /\ UNCHANGED <<parseVars, appVars, profileVars, clock, amountVars>>

\* decide_direction(description, amount)
DecideDirection ==
  /\ description # ""
  /\ verdict = NoVerdict
  /\ verdict' = [verdict EXCEPT !.decide = Returned(decide_direction(description, amount))]
  /\ UNCHANGED <<block, section_context, resolved, tx, description, amount, txs, normalized>>
  /\ UNCHANGED <<parseVars, appVars, profileVars, clock, amountVars>>

\* classify_direction(description, amount)
ClassifyDirection ==
  /\ description # ""
  /\ verdict = NoVerdict
  /\ verdict' = [verdict EXCEPT !.classify = Returned(classify_direction(description, amount))]
  /\ UNCHANGED <<block, section_context, resolved, tx, description, amount, txs, normalized>>
  /\ UNCHANGED <<parseVars, appVars, profileVars, clock, amountVars>>

NextDirection == BofaDirection \/ ChaseDirection \/ DecideDirection \/ ClassifyDirection

SpecDirection == InitDirection /\ [][NextDirection]_vars

(***************************************************************************)
(* SpecNorm: normalize_transactions called on a list of records.           *)
(***************************************************************************)
\* the longest list of SpecNorm
MaxTxs == 3

\* records as the parsers return them: signed and unsigned amounts, with and
\* without a direction, three of them on the same date
ParsedRecords ==
  { [date |-> "2026-01-07", description |-> " Zelle payment to Bob ", amount |-> 0 - 50000, direction |-> None],
    [date |-> "2026-01-05", description |-> "Deposit", amount |-> 30000, direction |-> "in"],
    [date |-> "2026-01-05", description |-> "Wire fee", amount |-> 10000, direction |-> None],
    [date |-> "2026-01-05", description |-> "Cafe", amount |-> 0 - 1250, direction |-> "out"],
    [date |-> "2025-12-31", description |-> "Interest payment", amount |-> 0, direction |-> ""],
    [date |-> "2026-01-06", description |-> "Misc item Ref: 4821", amount |-> 0 - 1250, direction |-> None],
    [date |-> "2026-01-06", description |-> "Misc item", amount |-> 2000, direction |-> None] }

InitNorm ==
  /\ txs \in UNION {[1..n -> ParsedRecords] : n \in 0..MaxTxs}
  /\ normalized = Pending
  /\ block = <<>>
  /\ section_context = None
  /\ resolved = Pending
  /\ tx = Pending
  /\ description = ""
  /\ amount = 0
  /\ verdict = NoVerdict
  /\ clock = ClockStart
  /\ IdleParse
  /\ IdleApp
  /\ IdleAmount
  /\ IdleProfile

\* normalize_transactions(txs)
Normalize ==
  /\ normalized = Pending
  /\ normalized' = Returned(normalize_transactions(txs))
  /\ UNCHANGED <<block, section_context, resolved, tx, description, amount, verdict, txs>>
  /\ UNCHANGED <<parseVars, appVars, profileVars, clock, amountVars>>

NextNorm == Normalize

SpecNorm == InitNorm /\ [][NextNorm]_vars

(***************************************************************************)
(* SpecApp: one request to /parse for a pdf of one page, while the clock   *)
(* may pass a new year.                                                    *)
(***************************************************************************)
\* the most rows of a page of SpecApp
MaxRows == 3

\* the rows a page is made of, each with the distance of its top from the top
\* of the row above (in tenths of a point) and its words with their x0: rows
\* with a date and a signed amount, a date without an amount, an amount that
\* sits 4 points below the row above, a row without date and amount, a row
\* with two amounts in parentheses and plain, the period of the statement, the
\* name of the bank in one word, a row that is ignored, a row with a long date
RowVocabulary ==
  { [gap |-> 100, cells |-> << <<"01/05", 50>>, <<"Payment", 90>>, <<"-25.00", 500>> >>],
    [gap |-> 100, cells |-> << <<"01/07/26", 50>>, <<"Deposit", 90>> >>],
    [gap |-> 40,  cells |-> << <<"1,500.00", 500>> >>],
    [gap |-> 100, cells |-> << <<"Ref", 90>>, <<"4821", 120>> >>],
    [gap |-> 100, cells |-> << <<"02/10", 50>>, <<"Cafe", 90>>, <<"3.00", 300>>, <<"(12.50)", 495>> >>],
    [gap |-> 100, cells |-> << <<"SUMMARY", 50>>, <<"FOR", 100>>, <<"THE", 130>>, <<"PERIOD:", 160>>,
                               <<"01/01/26", 210>>, <<"-", 260>>, <<"01/31/26", 270>> >>],
    [gap |-> 100, cells |-> << <<"Bank" \o NBSP \o "of" \o NBSP \o "America", 50>> >>],
    [gap |-> 100, cells |-> << <<"01/09/26", 50>>, <<"Fee", 90>>, <<"waiver", 120>> >>],
    [gap |-> 100, cells |-> << <<"January", 50>>, <<"12,", 100>>, <<"2026", 130>>, <<"Wire", 170>>, <<"40.00", 500>> >>] }

RECURSIVE RowTop(_, _)
\* the top of the k-th row of the page rs
RowTop(rs, k) == IF k = 0 THEN 0 ELSE RowTop(rs, k - 1) + rs[k].gap

RECURSIVE PageWords(_, _)
\* the words of the rows of rs from the k-th row on, in the order of (top, x0)
PageWords(rs, k) ==
  IF k > Len(rs) THEN <<>>
  ELSE [n \in 1..Len(rs[k].cells) |-> [text |-> rs[k].cells[n][1], x0 |-> rs[k].cells[n][2], top |-> RowTop(rs, k)]]
       \o PageWords(rs, k + 1)

InitApp ==
  /\ \E n \in 0..MaxRows : \E rs \in [1..n -> RowVocabulary] : page_words = PageWords(rs, 1)
  /\ app = [IdleLocals EXCEPT !.pc = "start"]
  /\ clock = ClockStart
  /\ IdleParse
  /\ IdleCalls
  /\ IdleAmount
  /\ IdleProfile

\* parse_pdf up to the loop over the rows
AppStart ==
  /\ app.pc = "start"
  /\ app' = AppStartStep(page_words, clock)
  /\ last' = 0
  /\ UNCHANGED <<page_words, doc, frame, current_section, in_legal_section, clock, callVars, profileVars, amountVars>>

\* one row of the loop of parse_pdf
AppRow ==
  /\ app.pc = "rows"
  /\ app.i <= Len(app.rows)
  /\ app' = AppRowStep(app, clock)
  /\ last' = 0
  /\ UNCHANGED <<page_words, doc, frame, current_section, in_legal_section, clock, callVars, profileVars, amountVars>>

\* the loop is over: the last flush, the textual fallback and the return
AppFinish ==
  /\ app.pc = "rows"
  /\ app.i > Len(app.rows)
  /\ app' = AppFinishStep(app, page_words, clock)
  /\ last' = 0
  /\ UNCHANGED <<page_words, doc, frame, current_section, in_legal_section, clock, callVars, profileVars, amountVars>>

NextApp == AppStart \/ AppRow \/ AppFinish \/ Tick

SpecApp == InitApp /\ [][NextApp]_vars

(***************************************************************************)
(* SpecDate: the recognizers of dates called on one line, with the year of *)
(* the clock as the fallback year.                                         *)
(***************************************************************************)
DateLines ==
  { "13/32 Store 5.00", "02/30 Cafe 12.50", "04/31 Rent 900.00", "02/29 Gas 40.00",
    "12/31 Payroll 1,500.00", "00/10 Fee 2.00", "1/5 Coffee 3.50", "01/32/26 Check 7.00",
    "February 30, 2026 Closing", "March 3, 2026 Opening", "Feb 30 Refund 5.00", "Jan 15 Deposit 10.00",
    "Balance forward" }

InitDate ==
  /\ line \in DateLines
  /\ dated = NoDates
  /\ full_text = [pad |-> 0, text |-> ""]
  /\ bank = Pending
  /\ profile = [key |-> "generic", lines |-> <<>>]
  /\ parsed = Pending
  /\ clock = ClockStart
  /\ IdleCalls
  /\ IdleParse
  /\ IdleApp
  /\ IdleAmount

\* ChaseParser._extract_date(line, year)
ChaseExtractDate ==
  /\ dated.chase = Pending
  /\ dated' = [dated EXCEPT !.chase = Returned(ChaseParser_extract_date(line, clock))]
  /\ UNCHANGED <<full_text, bank, line, profile, parsed, callVars, parseVars, appVars, clock, amountVars>>

\* parse_mmdd_token(line, year) of parsers/base.py
ParseMmddToken ==
  /\ dated.mmdd_token = Pending
  /\ dated' = [dated EXCEPT !.mmdd_token = Returned(parse_mmdd_token(line, clock))]
  /\ UNCHANGED <<full_text, bank, line, profile, parsed, callVars, parseVars, appVars, clock, amountVars>>

\* parse_long_date(line) of parsers/base.py
ParseLongDate ==
  /\ dated.long_date = Pending
  /\ dated' = [dated EXCEPT !.long_date = Returned(parse_long_date(line))]
  /\ UNCHANGED <<full_text, bank, line, profile, parsed, callVars, parseVars, appVars, clock, amountVars>>

\* parse_mmmdd(line, year) of parsers/base.py
ParseMmmdd ==
  /\ dated.mmmdd = Pending
  /\ dated' = [dated EXCEPT !.mmmdd = Returned(parse_mmmdd(line, clock))]
  /\ UNCHANGED <<full_text, bank, line, profile, parsed, callVars, parseVars, appVars, clock, amountVars>>

\* parse_mmdd(line, year) of app.py
AppParseMmdd ==
  /\ dated.app_mmdd = Pending
  /\ dated' = [dated EXCEPT !.app_mmdd = Returned(parse_mmdd(line, clock))]
  /\ UNCHANGED <<full_text, bank, line, profile, parsed, callVars, parseVars, appVars, clock, amountVars>>

NextDate == ChaseExtractDate \/ ParseMmddToken \/ ParseLongDate \/ ParseMmmdd \/ AppParseMmdd

SpecDate == InitDate /\ [][NextDate]_vars

(***************************************************************************)
(* SpecDetect: detect_bank_from_text called on the text of a pdf: two      *)
(* lines of a statement after a run of blanks.                             *)
(***************************************************************************)
\* lines of a statement: names of banks that DETECTION knows and names it
\* does not know
StatementLines ==
  { "", "Bank of America", "bankofamerica.com", "CHASE TOTAL CHECKING", "Chase Mobile app", "JPMorgan Chase Bank",
    "International  Finance Bank", "Valley", "help@mercury.com", "ACCT ENDING 1234", "Wells Fargo",
    "Citibank", "Citizens", "Truist", "Account summary" }

\* the lengths of the run of blanks: none, runs that leave the limit inside
\* the lines, and a run that fills the limit
Pads == {0, DetectLimit - 14, DetectLimit - 4, DetectLimit}

InitDetect ==
  /\ full_text \in {[pad |-> n, text |-> a \o (IF b = "" THEN "" ELSE "\n" \o b)] : n \in Pads, a \in StatementLines, b \in StatementLines}
  /\ bank = Pending
  /\ line = ""
  /\ dated = NoDates
  /\ profile = [key |-> "generic", lines |-> <<>>]
  /\ parsed = Pending
  /\ clock = ClockStart
  /\ IdleCalls
  /\ IdleParse
  /\ IdleApp
  /\ IdleAmount

\* detect_bank_from_text(full_text)
DetectBank ==
  /\ bank = Pending
  /\ bank' = Returned(detect_bank_from_text(full_text))
  /\ UNCHANGED <<full_text, line, dated, profile, parsed, callVars, parseVars, appVars, clock, amountVars>>

NextDetect == DetectBank

SpecDetect == InitDetect /\ [][NextDetect]_vars

(***************************************************************************)
(* SpecProfile: parse of the class of one key of REGISTRY called on the    *)
(* lines of a statement.                                                   *)
(***************************************************************************)
\* lines of a statement: rows of the table of daily balances, transactions
\* and a heading
ProfileLines ==
  { "11/06 1,234.56 11/07", "11/06 1,234.56", "01/05 Transfer 1,500.00", "02/30 Cafe 12.50", "DAILY ENDING BALANCE" }

InitProfile ==
  /\ profile \in {[key |-> k, lines |-> ls] : k \in REGISTRY_keys, ls \in UNION {[1..n -> ProfileLines] : n \in 0..MaxLines}}
  /\ parsed = Pending
  /\ full_text = [pad |-> 0, text |-> ""]
  /\ bank = Pending
  /\ line = ""
  /\ dated = NoDates
  /\ clock = ClockStart
  /\ IdleCalls
  /\ IdleParse
  /\ IdleApp
  /\ IdleAmount

\* REGISTRY[profile.key]().parse(pdf_bytes, full_text)
ParseProfile ==
  /\ parsed = Pending
  /\ parsed' = Returned(REGISTRY_parse(profile.key, profile.lines, clock))
  /\ UNCHANGED <<full_text, bank, line, dated, profile, callVars, parseVars, appVars, clock, amountVars>>

NextProfile == ParseProfile

SpecProfile == InitProfile /\ [][NextProfile]_vars

(***************************************************************************)
(* SpecSegment: one invocation of ChaseParser.parse on a document of at    *)
(* most two lines, the lines being of every kind the loops tell apart.     *)
(***************************************************************************)
\* transaction rows, a continuation line, section headers, the start and the
\* end of a legal section, rows with a legal marker (one of them a section
\* header as well), noise lines of every kind (one of them with a date) and
\* blank lines
SegmentLines ==
  { "01/05 Transfer 1,500.00",
    "Ref 4821 Main St",
    "DEPOSITS AND ADDITIONS",
    "TRANSACTION DETAIL",
    "In case of errors or questions about your electronic funds transfers",
    "JPMorgan Chase Bank, N.A. Miembro FDIC",
    "01/09 call us at 5.00",
    "02/03 Llámenos al 1-866 2.00",
    "03/04 En caso de errores 3.00",
    "01/12 ACH credit, call us at 4.00",
    "Prepare to provide your name",
    "Page 2 of 4",
    "Total deposits 5.00",
    "Account number: 000123",
    "$1,234.56",
    "123456789012",
    "November 30, 2024 through December 31, 2024",
    "01/06 *end* 9.00",
    "   ",
    "" }

SegmentDocuments == {<<>>} \cup {<<a>> : a \in SegmentLines} \cup {<<a, b>> : a \in SegmentLines, b \in SegmentLines}

InitSegment ==
  /\ \E lines \in SegmentDocuments :
       doc = [p \in Procs |-> IF p = 1 THEN [kind |-> "chase", lines |-> lines]
                                        ELSE [kind |-> "chase", lines |-> <<>>]]
  /\ frame = [p \in Procs |-> IF p = 1 THEN FreshFrame ELSE DoneFrame]
  /\ current_section = [c \in Procs |-> None]
  /\ in_legal_section = [c \in Procs |-> FALSE]
  /\ clock = ClockStart
  /\ last = 0
  /\ IdleCalls
  /\ IdleApp
  /\ IdleAmount
  /\ IdleProfile

NextSegment == \E p \in Procs : Start(p) \/ Return(p) \/ ChaseOuter(p) \/ ChaseAppend(p) \/ ChaseClose(p)

SpecSegment == InitSegment /\ [][NextSegment]_vars

(***************************************************************************)
(* SpecAmount: the three resolvers of amounts called on one token of       *)
(* RE_AMOUNT.                                                              *)
(***************************************************************************)
AmountNumbers == {"5", "12.50", "0.75", "1,234.56"}

\* the strings RE_AMOUNT matches as a whole around the numbers of
\* AmountNumbers: \(? sign? \$? number \)? \-?
AmountTokens ==
  { open \o sign \o dollar \o number \o close \o trail :
      open \in {"", "("}, sign \in {""} \cup AmountSigns, dollar \in {"", "$"},
      number \in AmountNumbers, close \in {"", ")"}, trail \in {"", "-"} }

InitAmount ==
  /\ amt_str \in AmountTokens
  /\ value = NoValue
  /\ clock = ClockStart
  /\ IdleCalls
  /\ IdleParse
  /\ IdleApp
  /\ IdleProfile

\* pick_amount([amt_str]) of parsers/base.py
PickAmount ==
  /\ value.pick = Pending
  /\ value' = [value EXCEPT !.pick = Returned(pick_amount(<<amt_str>>, TRUE))]
  /\ UNCHANGED <<amt_str, callVars, parseVars, appVars, profileVars, clock>>

\* ChaseParser._extract_amount_from_block_improved([amt_str], amt_str)
ChaseExtractAmount ==
  /\ value.chase = Pending
  /\ value' = [value EXCEPT !.chase = Returned(ChaseParser_extract_amount_from_block_improved(<<amt_str>>, amt_str))]
  /\ UNCHANGED <<amt_str, callVars, parseVars, appVars, profileVars, clock>>

\* clean_to_float(amt_str) of CitiParser._extract_transaction_amount_and_desc
CitiCleanToFloat ==
  /\ value.citi = Pending
  /\ value' = [value EXCEPT !.citi = Returned(CitiParser_clean_to_float(amt_str))]
  /\ UNCHANGED <<amt_str, callVars, parseVars, appVars, profileVars, clock>>

NextAmount == PickAmount \/ ChaseExtractAmount \/ CitiCleanToFloat

SpecAmount == InitAmount /\ [][NextAmount]_vars

(***************************************************************************)
(* SpecEnd: one invocation of parse on a document, or one request to       *)
(* /parse for a page, up to the end of the input.                          *)
(***************************************************************************)
InitEnd == InitParse \/ InitApp

NextEnd == (\E p \in Procs : ParserStep(p)) \/ AppStart \/ AppRow \/ AppFinish

SpecEnd == InitEnd /\ [][NextEnd]_vars

(***************************************************************************)
(* SpecRules: decide_direction called on descriptions that the rules of    *)
(* DIR_RULES match, one alone or several at once.                          *)
(***************************************************************************)
RuleDescriptions ==
  { "ACH DEBIT Acme", "ACH PULL Acme", "BILL PAID Water", "DEBIT MEMO", "SERVICE CHARGES",
    "WIRE FEE", "WIRE TRANS SVC CHARGE", "DBT CRD 1234", "POS DEB 1234", "DEBIT CARD PURCH Lyft",
    "Zelle payment to Ana", "PAYPAL INST XFER", "CHECK 1021", "ATM WITHDRAWAL", "MONTHLY FEE",
    "ACH CREDIT Acme", "ACH IN Acme", "ELECTRONIC CREDIT", "DEBIT CARD CREDI Lyft", "Zelle payment from Ana",
    "WIRE IN", "INTEREST PAYMENT", "WT SEQ123 Acme", "WT FEE",
    "PAYPAL TRANSFER CREDIT", "PayPal Inst Xfer Credit", "ACH CREDIT PAYPAL", "CHECK DEPOSIT ACH CREDIT",
    "Payroll", "Rent" }

InitRules ==
  /\ description \in RuleDescriptions
  /\ amount \in {0 - 1500, 4000}
  /\ section_context = None
  /\ verdict = NoVerdict
  /\ block = <<>>
  /\ resolved = Pending
  /\ tx = Pending
  /\ txs = <<>>
  /\ normalized = Pending
  /\ clock = ClockStart
  /\ IdleParse
  /\ IdleApp
  /\ IdleAmount
  /\ IdleProfile

NextRules == DecideDirection

SpecRules == InitRules /\ [][NextRules]_vars

(***************************************************************************)
(* SpecLoops: one invocation of parse of ChaseParser, GenericParser or     *)
(* ValleyParser on a document of at most MaxLines lines; an invocation     *)
(* that can take a step takes one in the end.                              *)
(***************************************************************************)
\* lines that make every kind of iteration happen: lines that are skipped,
\* lines that anchor a block with and without an amount, lines that end a
\* block
LoopVocabulary(kind) ==
  IF kind = "chase" THEN
    { "DEPOSITS AND ADDITIONS", "01/05 Transfer 1,500.00", "01/07 Cafe", "Ref 4821 Main St", "Page 2 of 4",
      "In case of errors or questions about your electronic funds transfers",
      "JPMorgan Chase Bank, N.A. Miembro FDIC" }
  ELSE IF kind = "generic" THEN
    { "01/05 Transfer 1,500.00", "01/07 Cafe", "Ref 4821 Main St", "Jan 12, 2024 Wire 40.00" }
  ELSE
    { "01/05 WIRE OUT Acme $1,500.00 $2,000.00", "01/07 Cafe", "Ref 4821 Main St", "$12.50 $1,987.50",
      "LESS CHARGES: USD 15.00", "TRANSACTIONS 01/09 ATM Fee 01/10 Deposit $40.00", "Page 2 of 4" }

LoopKinds == {"chase", "generic", "valley"}

\* the lines the loop of parse runs over
LoopLines(kind, raw_lines) == IF kind = "valley" THEN ValleyLines(raw_lines) ELSE raw_lines

InitLoops ==
  /\ \E kind \in LoopKinds : \E k \in 0..MaxLines : \E raw_lines \in [1..k -> LoopVocabulary(kind)] :
       doc = [p \in Procs |-> IF p = 1 THEN [kind |-> kind, lines |-> LoopLines(kind, raw_lines)]
                                        ELSE [kind |-> "chase", lines |-> <<>>]]
  /\ frame = [p \in Procs |-> IF p = 1 THEN FreshFrame ELSE DoneFrame]
  /\ current_section = [c \in Procs |-> None]
  /\ in_legal_section = [c \in Procs |-> FALSE]
  /\ clock = ClockStart
  /\ last = 0
  /\ IdleCalls
  /\ IdleApp
  /\ IdleAmount
  /\ IdleProfile

NextLoops == \E p \in Procs : ParserStep(p) \/ ValleyOuter(p) \/ ValleyScan(p) \/ ValleyClose(p)

\* some invocation has not returned.  Every value of pc but "done" enables
\* one action of the invocation, and every action changes pc, i or j, so
\* Running is ENABLED <<NextLoops>>_vars
Running == \E p \in Procs : frame[p].pc # "done"

\* WF_vars(NextLoops) with its ENABLED written out: an invocation is not
\* left forever at a step it can take
LoopsFairness == []<>(~Running) \/ []<><<NextLoops>>_vars

SpecLoops == InitLoops /\ [][NextLoops]_vars /\ LoopsFairness

(***************************************************************************)
(* Claims                                                                  *)
(***************************************************************************)
\* the line idx of invocation p is recognized as a date by p's parser
IsDateLine(p, idx) ==
  IF doc[p].kind = "chase" THEN ChaseParser_extract_date(doc[p].lines[idx], frame[p].year) # None
  ELSE GenericDate(doc[p].lines[idx], frame[p].year) # None

\* the block b of invocation p starts at a date line and holds no line from
\* the next date line on
OneAnchor(p, b) ==
  /\ IsDateLine(p, b[1])
  /\ \A k \in 2..Len(b) : ~IsDateLine(p, b[k])
  /\ \A m \in (b[1] + 1)..Len(doc[p].lines) : IsDateLine(p, m) => \A k \in 1..Len(b) : b[k] < m

\* C3: a block never spans two date anchors.  Every block that
\* ChaseParser.parse or GenericParser.parse builds, open or closed, has exactly
\* one line recognized as a date, its first, and contains neither the next
\* date line nor any line after it.
C3_BlockNeverSpansTwoDates ==
  \A p \in Procs :
    /\ frame[p].block # <<>> => OneAnchor(p, frame[p].block)
    /\ \A n \in 1..Len(frame[p].blocks) : OneAnchor(p, frame[p].blocks[n])

\* a block of two lines was closed by the date line that follows it, and that
\* line anchors the next block
C3_Witness ==
  \E p \in Procs :
    /\ doc[p].kind = "chase"
    /\ Len(frame[p].blocks) >= 2
    /\ Len(frame[p].blocks[1]) >= 2
    /\ frame[p].blocks[2][1] = frame[p].blocks[1][Len(frame[p].blocks[1])] + 1

\* the output of the pipeline for invocation p: parse, then normalize_transactions
PipelineOutput(p) == normalize_transactions(frame[p].results)

\* C4: re-running the pipeline on identical input lines and identical full
\* text yields identical output, also when the text holds no 20xx year and the
\* fallback year is used.
C4_RerunYieldsIdenticalOutput ==
  (frame[1].pc = "done" /\ frame[2].pc = "done" /\ doc[1] = doc[2]) => PipelineOutput(1) = PipelineOutput(2)

\* what invocation q alone reads and writes
Locals(q) == <<frame[q], current_section[SectionCell(q)], in_legal_section[SectionCell(q)]>>

\* C5: parse invocations share no mutable state.  A step of one invocation
\* leaves the locals of every other invocation (its current_section and
\* in_legal_section included) as they were, and an invocation that has
\* returned has the result it has when it runs alone.
C5_InvocationsShareNoState ==
  /\ [][\A q \in Procs : last' # q => Locals(q)' = Locals(q)]_vars
  /\ [](\A p \in Procs : frame[p].pc = "done" => frame[p].results = ParseAlone(doc[p].kind, doc[p].lines, frame[p].year))

\* two Chase invocations are both inside a block, one in the deposits section
\* and the other in the withdrawals section
C5_Witness ==
  /\ doc[1].kind = "chase" /\ doc[2].kind = "chase"
  /\ frame[1].pc = "inner" /\ frame[2].pc = "inner"
  /\ current_section[SectionCell(1)] = "deposits"
  /\ current_section[SectionCell(2)] = "withdrawals"

\* C1: every transaction record the pipeline emits has amount >= 0, whatever
\* the sign of the amount that was read (leading "-", trailing "-" or
\* parentheses): every record that normalize_transactions returns and every
\* record that the /parse endpoint returns.
C1_EmittedAmountsNonNegative ==
  /\ normalized # Pending => \A k \in 1..Len(normalized[1]) : normalized[1][k].amount >= 0
  /\ app.pc = "done" => \A k \in 1..Len(app.txs) : app.txs[k].amount >= 0

\* the records of seq with the date d, in the order of seq
DateSlice(seq, d) == SelectSeq(seq, LAMBDA r : r.date = d)

\* C2: normalize_transactions returns the records ordered by date,
\* non-decreasing, and the records of one date are in the order they have in
\* its input (the sort is stable).
C2_SortedByDateStable ==
  normalized # Pending =>
    /\ \A k \in 1..(Len(normalized[1]) - 1) : ~StrLess(normalized[1][k + 1].date, normalized[1][k].date)
    /\ \A d \in {txs[k].date : k \in 1..Len(txs)} :
         [k \in 1..Len(DateSlice(normalized[1], d)) |-> DateSlice(normalized[1], d)[k].description]
           = [k \in 1..Len(DateSlice(txs, d)) |-> Strip(DateSlice(txs, d)[k].description)]

\* a list was normalized that was not in the order of its dates and that holds
\* two different records of one date
C2_Witness ==
  /\ normalized # Pending
  /\ \E i \in 1..Len(txs) : \E j \in (i + 1)..Len(txs) :
       txs[i].date = txs[j].date /\ txs[i].description # txs[j].description
  /\ \E k \in 1..(Len(txs) - 1) : StrLess(txs[k + 1].date, txs[k].date)

\* C6: for a block with a phone number (ddd.ddd.dddd or ddd-ddd-dddd) and the
\* genuine amount at the end of the line, the amount resolver returns the
\* genuine amount: the Latitude line resolves to 1254.81 and the Waste Mgmt
\* line to 2487.82.
C6_PhoneNumberLineResolvesToItsAmount ==
  resolved # Pending =>
    /\ block = <<LatitudeLine>> => resolved[1] = Some(125481)
    /\ block = <<WasteMgmtLine>> => resolved[1] = Some(248782)

\* C7: for a block with a ZIP+4 code and the genuine amount on the following
\* line, the amount resolver returns the genuine amount: the Book Transfer
\* line followed by "68,795.00" resolves to 68795.00.
C7_ZipPlus4BlockResolvesToItsAmount ==
  (resolved # Pending /\ block = <<BookTransferLine, "68,795.00">>) => resolved[1] = Some(6879500)

\* C8: when a block holds a money token with a currency symbol and bare
\* numbers, the amount resolver returns the value of the token with the
\* symbol: the ACH line resolves to 3000.00, and processing it in the deposits
\* section yields exactly one transaction, with amount 3000.00 and direction
\* "in".
C8_CurrencyMarkedTokenIsTheAmount ==
  /\ (resolved # Pending /\ block = <<AchLine>>) => resolved[1] = Some(300000)
  /\ (tx # Pending /\ block = <<AchLine>> /\ section_context = "deposits") =>
       /\ Len(tx[1]) = 1
       /\ tx[1][1].amount = 300000
       /\ tx[1][1].direction = "in"

\* C9 as stated: BOFAParser._determine_direction returns "in" for every
\* description containing "wire type: wire in" and "out" for every description
\* containing "wire type: wire out", whatever the section context and the
\* other keywords of the description.
C9_WireMarkerDecides ==
  verdict.bofa # Pending =>
    /\ Contains(Lower(description), "wire type: wire in") => verdict.bofa = Returned("in")
    /\ Contains(Lower(description), "wire type: wire out") => verdict.bofa = Returned("out")

\* the description carries the marker "wire type:" followed, with or without
\* a blank, by what
SaysWireType(d, what) ==
  Contains(Lower(d), "wire type: " \o what) \/ Contains(Lower(d), "wire type:" \o what)

\* C9, amended: BOFAParser._determine_direction returns "in" for every
\* description with the marker "wire type: wire in", and "out" for every
\* description with the marker "wire type: wire out" that carries no marker
\* of an incoming wire (wire in, intl in, book in, fx in), whatever the
\* section context and the fee, purchase or deposit keywords of the
\* description.
C9_WireMarkerDecidesInFirst ==
  verdict.bofa # Pending =>
    /\ SaysWireType(description, "wire in") => verdict.bofa = Returned("in")
    /\ (SaysWireType(description, "wire out")
        /\ \A what \in {"wire in", "intl in", "book in", "fx in"} : ~SaysWireType(description, what))
       => verdict.bofa = Returned("out")

\* a description with the marker of an incoming wire and the word fee was
\* classified "in" in the withdrawals section
C9_Witness ==
  /\ verdict.bofa = Returned("in")
  /\ section_context = "withdrawals"
  /\ Contains(Lower(description), "wire type: wire in")
  /\ Contains(Lower(description), "fee")

\* C10: ChaseParser._determine_direction returns "in" for every transaction
\* whose section context is deposits, a fee reversal whose description holds
\* fee and charge words included.
C10_DepositsSectionIsIn ==
  (verdict.chase # Pending /\ section_context = "deposits") => verdict.chase = Returned("in")

\* the description of an ACH item carries an indicator of a credit
SaysAchCredit(d) == AnyContains(Lower(d), {"descr:sender", "descr:credit", "credit"})

\* C11 as stated: for every description containing "orig co name",
\* ChaseParser._determine_direction returns "in" in the deposits section and
\* "out" in the withdrawals section; without a section it returns "in" when
\* the description carries a sender or credit indicator and "out" otherwise.
C11_AchItemFollowsItsSection ==
  (verdict.chase # Pending /\ Contains(Lower(description), "orig co name")) =>
    /\ section_context = "deposits" => verdict.chase = Returned("in")
    /\ section_context = "withdrawals" => verdict.chase = Returned("out")
    /\ section_context = None => verdict.chase = Returned(IF SaysAchCredit(description) THEN "in" ELSE "out")

\* C11, amended: the same for every description containing "orig co name"
\* that holds none of the patterns of a kind of transaction which
\* _determine_direction tests first (card purchase, deposit, payment to,
\* wise, the Spanish ACH debit).
C11_AchItemWithoutTypePatternFollowsItsSection ==
  (/\ verdict.chase # Pending
   /\ Contains(Lower(description), "orig co name")
   /\ ChaseParser_type_patterns(Lower(description)) = None) =>
    /\ section_context = "deposits" => verdict.chase = Returned("in")
    /\ section_context = "withdrawals" => verdict.chase = Returned("out")
    /\ section_context = None => verdict.chase = Returned(IF SaysAchCredit(description) THEN "in" ELSE "out")

\* an ACH item without a credit indicator and with the word fee was
\* classified "in" in the deposits section
C11_Witness ==
  /\ verdict.chase = Returned("in")
  /\ section_context = "deposits"
  /\ Contains(Lower(description), "orig co name")
  /\ Contains(Lower(description), "fee")
  /\ ~SaysAchCredit(description)
  /\ ChaseParser_type_patterns(Lower(description)) = None

\* no marker, keyword or section rule of ChaseParser._determine_direction
\* applies to the description d without a section: the sign of the amount
\* decides
ChaseSignDecides(d) ==
  /\ ChaseParser_determine_direction(d, None, 0 - 1, d) = "out"
  /\ ChaseParser_determine_direction(d, None, 1, d) = "in"

\* no pattern of DIR_RULES applies to the description d: the sign of the
\* amount decides
CommonSignDecides(d) == decide_direction(d, 0 - 1) = "out" /\ decide_direction(d, 1) = "in"

\* none of the keywords of classify_direction is in the description d
NoClassifyKeyword(d) ==
  ~AnyContains(Lower(d), {"deposit", "credit", "money added", "incoming", "withdraw", "debit", "outgoing", "payment", "fee"})

\* C12: when no marker, keyword or section rule applies and the amount is
\* exactly zero, ChaseParser._determine_direction, decide_direction and
\* classify_direction return "unknown", and every direction they return is one
\* of "in", "out", "unknown".
C12_ZeroAmountIsUnknown ==
  /\ (verdict.chase # Pending /\ amount = 0 /\ section_context = None /\ ChaseSignDecides(description))
       => verdict.chase = Returned("unknown")
  /\ (verdict.decide # Pending /\ amount = 0 /\ CommonSignDecides(description))
       => verdict.decide = Returned("unknown")
  /\ (verdict.classify # Pending /\ amount = 0 /\ NoClassifyKeyword(description))
       => verdict.classify = Returned("unknown")
  /\ \A f \in {"chase", "decide", "classify"} :
       verdict[f] # Pending => verdict[f][1] \in {"in", "out", "unknown"}

\* the record t came out of a parser without a direction
NoDirection(t) == t.direction = None \/ t.direction = ""

\* no pattern of DIR_RULES is in the description d
NoDirRule(d) == \A n \in 1..DIR_RULES_count : ~DIR_RULES_match(n, Upper(d))

\* C13: a record without a direction whose description matches none of
\* DIR_RULES leaves normalize_transactions with the direction "out" when its
\* amount is negative and "in" when its amount is positive.
C13_SignDecidesWithoutRule ==
  normalized # Pending =>
    \A d \in {txs[k].date : k \in 1..Len(txs)} : \A k \in 1..Len(DateSlice(txs, d)) :
      LET Holds(t, r) ==
            (NoDirection(t) /\ NoDirRule(t.description) /\ t.amount # 0)
              => r.direction = (IF t.amount < 0 THEN "out" ELSE "in")
      IN Holds(DateSlice(txs, d)[k], DateSlice(normalized[1], d)[k])

\* the key of a normalized record under which the claim deduplicates
DedupKey(r) == <<r.date, r.amount, r.direction, extract_ref(r.description)>>

\* C17: after normalize_transactions no two records have the same date,
\* amount, direction and reference id; records without a reference id are
\* all kept.
C17_NoDuplicateByReference ==
  normalized # Pending =>
    /\ \A i \in 1..Len(normalized[1]) : \A j \in (i + 1)..Len(normalized[1]) :
         extract_ref(normalized[1][i].description) # <<>>
           => DedupKey(normalized[1][i]) # DedupKey(normalized[1][j])
    /\ Len(SelectSeq(normalized[1], LAMBDA r : extract_ref(r.description) = <<>>))
         = Len(SelectSeq(txs, LAMBDA t : extract_ref(Strip(t.description)) = <<>>))

\* the line l starts, after blanks, with digits "/" digits naming a month
\* outside 1..12 or a day outside 1..31
StartsWithImpossibleDate(l) ==
  LET Impossible(m) == m # <<>> /\ (ToInt(m[1]) \notin 1..12 \/ ToInt(m[2]) \notin 1..31)
  IN Impossible(RE_DATE_SLASH_match(l))

\* C15: every recognizer of numeric dates (ChaseParser._extract_date,
\* parse_mmdd_token, parse_mmdd) returns None for a line whose month is
\* outside 1..12 or whose day is outside 1..31, such as "13/32 ...".
C15_ImpossibleDateIsNone ==
  StartsWithImpossibleDate(line) =>
    \A f \in {"chase", "mmdd_token", "app_mmdd"} : dated[f] # Pending => dated[f] = Returned(None)

\* the number of days of the month m of the year y
DaysInMonth(y, m) ==
  IF m \in {4, 6, 9, 11} THEN 30
  ELSE IF m # 2 THEN 31
  ELSE IF y % 4 = 0 /\ (y % 100 # 0 \/ y % 400 = 0) THEN 29 ELSE 28

\* the text iso, of the form YYYY-MM-DD, names a day of the calendar
RealDate(iso) ==
  LET Real(y, m, d) == m \in 1..12 /\ d >= 1 /\ d <= DaysInMonth(y, m)
  IN Real(ToInt(SubSeq(iso, 1, 4)), ToInt(SubSeq(iso, 6, 7)), ToInt(SubSeq(iso, 9, 10)))

\* C16: every date a recognizer returns is a real calendar date; none is a
\* 30th or 31st of February or a 31st of April.
C16_DatesAreCalendarDates ==
  \A f \in DOMAIN dated : (dated[f] # Pending /\ dated[f] # Returned(None)) => RealDate(dated[f][1])

\* C18: detect_bank_from_text returns the key of the first entry of
\* DETECTION one of whose patterns matches, without regard to case, the first
\* 20000 characters of the text, and "generic" when the text is empty or no
\* entry matches; a text matching a Bank of America and a Chase pattern is
\* "bofa", and CHASE TOTAL CHECKING without a Bank of America pattern is
\* "chase".
C18_FirstMatchingEntryWithinLimit ==
  bank # Pending =>
    LET Verdict(t) ==
          /\ (\A n \in 1..Len(DETECTION_keys) : ~DETECTION_match(n, t)) => bank = Returned("generic")
          /\ \A n \in 1..Len(DETECTION_keys) :
               (DETECTION_match(n, t) /\ \A m \in 1..(n - 1) : ~DETECTION_match(m, t))
                 => bank = Returned(DETECTION_keys[n])
          /\ (DETECTION_match(1, t) /\ DETECTION_match(2, t)) => bank = Returned("bofa")
          /\ (BoundedSearch(t, "chase total checking") /\ ~DETECTION_match(1, t)) => bank = Returned("chase")
    IN /\ Verdict(SearchedText(TextPrefix(full_text, DetectLimit)))
       /\ (full_text.pad = 0 /\ full_text.text = "") => bank = Returned("generic")

\* a text was detected as "chase" whose Bank of America line lies beyond the
\* first 20000 characters
C18_Witness ==
  /\ bank = Returned("chase")
  /\ full_text.pad > 0
  /\ DETECTION_match(1, SearchedText(full_text))
  /\ ~DETECTION_match(1, SearchedText(TextPrefix(full_text, DetectLimit)))

\* no money token of the block b survives the filters of the amount resolver
\* (value under 1.00, part of a phone number, card number)
NoTokenSurvives(b) ==
  \A k \in 1..Len(FindAllLines(b)) : ~ChaseParser_is_likely_transaction_amount(FindAllLines(b)[k], JoinSp(b))

\* C20: the Chase amount resolver returns None whenever no money token of
\* the block survives its filters; it never returns the value of a token it
\* rejected.
C20_NoSurvivingTokenIsNone ==
  (resolved # Pending /\ NoTokenSurvives(block)) => resolved = Returned(NoneF)

\* the line l is purely a row of the table of daily balances: a date, a
\* balance and at most a further date, without a text of description
DailyBalanceRow(l) ==
  /\ \A i \in 1..Len(l) : Ch(l, i) \in Digits \cup {"/", ",", ".", "$", " "}
  /\ RE_DATE_SLASH_match(l) # <<>>
  /\ Contains(l, ".")

\* C14: lines that are purely rows of daily balances, such as
\* "11/06 1,234.56 11/07", produce no transaction when the Chase parser
\* parses them.
C14_DailyBalanceRowYieldsNothing ==
  (/\ parsed # Pending
   /\ profile.key = "chase"
   /\ \A k \in 1..Len(profile.lines) : DailyBalanceRow(profile.lines[k]))
    => parsed[1].results = <<>>

\* C19: for every key of REGISTRY parse completes and returns a list: no
\* exception escapes it, and lines without a transaction yield the empty
\* list.
C19_ParseReturnsList ==
  parsed # Pending =>
    /\ parsed[1].raised = None
    /\ profile.lines = <<>> => parsed[1].results = <<>>

\* the line k of lines lies in a legal span: from a start line of a legal
\* section through the next end line, or through the end of the document
InLegalSpan(lines, k) ==
  \E s \in 1..k :
    /\ ChaseParser_is_legal_section_start(lines[s])
    /\ \A e \in (s + 1)..(k - 1) : ~ChaseParser_is_legal_section_end(lines[e])

\* the line the invocation p of ChaseParser.parse is at: the line i in the
\* outer loop, the line j in the inner loop, 0 when there is none
CursorLine(p) ==
  LET At(k) == IF k <= Len(doc[p].lines) THEN k ELSE 0
  IN IF doc[p].kind # "chase" THEN 0
     ELSE IF frame[p].pc = "outer" THEN At(frame[p].i)
     ELSE IF frame[p].pc = "inner" THEN At(frame[p].j)
     ELSE 0

\* C21: in ChaseParser.parse every line of a legal span is suppressed: no
\* block, open or closed, holds such a line, and the step that meets such a
\* line neither opens a block nor appends to one nor changes the current
\* section, so the section in force before the span is in force after it.
C21_LegalSpanIsSuppressed ==
  /\ [](\A p \in Procs : doc[p].kind = "chase" =>
          /\ \A k \in 1..Len(frame[p].block) : ~InLegalSpan(doc[p].lines, frame[p].block[k])
          /\ \A n \in 1..Len(frame[p].blocks) : \A k \in 1..Len(frame[p].blocks[n]) :
               ~InLegalSpan(doc[p].lines, frame[p].blocks[n][k]))
  /\ [][\A p \in Procs :
          (CursorLine(p) # 0 /\ InLegalSpan(doc[p].lines, CursorLine(p)) /\ frame'[p] # frame[p]) =>
            /\ Len(frame'[p].block) <= Len(frame[p].block)
            /\ current_section'[p] = current_section[p]]_vars

\* a parse ended with the section deposits in force although a header of the
\* withdrawals lies in the legal span that follows the deposits header
C21_Witness ==
  \E p \in Procs :
    /\ doc[p].kind = "chase"
    /\ frame[p].pc = "done"
    /\ current_section[p] = "deposits"
    /\ \E k \in 1..Len(doc[p].lines) :
         /\ InLegalSpan(doc[p].lines, k)
         /\ ChaseParser_detect_section(doc[p].lines[k]) = "withdrawals"

\* the line l contains one of the legal markers of _extract_date
HasLegalMarker(l) == AnyContains(Lower(l), ChaseParser_legal_markers)

\* C22: a line with a legal marker is never recognized as a date by
\* ChaseParser._extract_date, even if it starts with a valid MM/DD token, so
\* in ChaseParser.parse such a line never opens a block and never closes the
\* open one.
C22_LegalMarkerLineNeitherOpensNorCloses ==
  /\ [](\A p \in Procs : doc[p].kind = "chase" =>
          /\ \A k \in 1..Len(doc[p].lines) :
               HasLegalMarker(doc[p].lines[k]) => ChaseParser_extract_date(doc[p].lines[k], frame[p].year) = None
          /\ frame[p].block # <<>> => ~HasLegalMarker(doc[p].lines[frame[p].block[1]])
          /\ \A n \in 1..Len(frame[p].blocks) : ~HasLegalMarker(doc[p].lines[frame[p].blocks[n][1]]))
  /\ [][\A p \in Procs :
          (/\ frame[p].pc = "inner" /\ CursorLine(p) # 0
           /\ HasLegalMarker(doc[p].lines[CursorLine(p)])
           /\ frame'[p] # frame[p]) => frame'[p].pc = "inner"]_vars

\* C22, amended: the same, but the open block does end at a line with a
\* legal marker that starts a legal section or is a section header; it never
\* ends there because of a date.
C22_LegalMarkerLineIsNoDate ==
  /\ [](\A p \in Procs : doc[p].kind = "chase" =>
          /\ \A k \in 1..Len(doc[p].lines) :
               HasLegalMarker(doc[p].lines[k]) => ChaseParser_extract_date(doc[p].lines[k], frame[p].year) = None
          /\ frame[p].block # <<>> => ~HasLegalMarker(doc[p].lines[frame[p].block[1]])
          /\ \A n \in 1..Len(frame[p].blocks) : ~HasLegalMarker(doc[p].lines[frame[p].blocks[n][1]]))
  /\ [][\A p \in Procs :
          (/\ frame[p].pc = "inner" /\ CursorLine(p) # 0
           /\ HasLegalMarker(doc[p].lines[CursorLine(p)])
           /\ ~ChaseParser_is_legal_section_start(doc[p].lines[CursorLine(p)])
           /\ ~ChaseParser_is_section_header(doc[p].lines[CursorLine(p)])
           /\ frame'[p] # frame[p]) => frame'[p].pc = "inner"]_vars

\* a parse ended with one block of two lines whose second line starts with a
\* valid MM/DD token and holds a legal marker
C22_Witness ==
  \E p \in Procs :
    /\ doc[p].kind = "chase"
    /\ frame[p].pc = "done"
    /\ Len(frame[p].blocks) = 1
    /\ Len(frame[p].blocks[1]) = 2
    /\ HasLegalMarker(doc[p].lines[frame[p].blocks[1][2]])
    /\ RE_DATE_SLASH_match(doc[p].lines[frame[p].blocks[1][2]]) # <<>>

\* the number written in a token of RE_AMOUNT, in cents
WrittenNumber(tok) == ToFloat(RemoveChars(tok, {"(", ")", "-", "$", ","}))[1]

\* the token has a leading "-", a trailing "-" or enclosing parentheses
WrittenNegative(tok) ==
  \/ StartsWith(tok, "-") \/ StartsWith(tok, "(-")
  \/ EndsWith(tok, "-")
  \/ StartsWith(tok, "(") /\ (EndsWith(tok, ")") \/ EndsWith(tok, ")-"))

\* C23: the amount each resolver returns for a token is the number written in
\* the token, negative exactly when the token has a leading "-", a trailing
\* "-" or enclosing parentheses; this holds for pick_amount, for
\* ChaseParser._extract_amount_from_block_improved and for clean_to_float of
\* CitiParser
C23_SignIsParsedFromToken ==
  \A f \in DOMAIN value :
    value[f] # Pending =>
      value[f] = Returned(Some(IF WrittenNegative(amt_str) THEN 0 - WrittenNumber(amt_str)
                               ELSE WrittenNumber(amt_str)))

\* C23 for clean_to_float of CitiParser alone
C23_CitiSignIsParsedFromToken ==
  value.citi # Pending =>
    value.citi = Returned(Some(IF WrittenNegative(amt_str) THEN 0 - WrittenNumber(amt_str)
                               ELSE WrittenNumber(amt_str)))

\* C23 for pick_amount and the resolver of ChaseParser alone
C23_BaseSignIsParsedFromToken ==
  \A f \in {"pick", "chase"} :
    value[f] # Pending =>
      value[f] = Returned(Some(IF WrittenNegative(amt_str) THEN 0 - WrittenNumber(amt_str)
                               ELSE WrittenNumber(amt_str)))

\* the blocks of the invocation p, the open one included
BlocksOf(p) == frame[p].blocks \o (IF frame[p].block = <<>> THEN <<>> ELSE <<frame[p].block>>)

\* C24: in ChaseParser.parse a noise line never starts and never extends a
\* block: every line of every block, open or processed, is neither blank nor
\* a noise line
C24_NoNoiseLineInABlock ==
  \A p \in Procs :
    doc[p].kind = "chase" =>
      \A n \in 1..Len(BlocksOf(p)) :
        \A k \in 1..Len(BlocksOf(p)[n]) :
          /\ Strip(doc[p].lines[BlocksOf(p)[n][k]]) # ""
          /\ ~ChaseParser_is_noise_line(doc[p].lines[BlocksOf(p)[n][k]])

\* a parse is over in which the inner loop met a noise line after the date
\* line and left it out of the block
C24_Witness ==
  \E p \in Procs :
    /\ doc[p].kind = "chase" /\ frame[p].pc = "done"
    /\ Len(doc[p].lines) = 2
    /\ frame[p].blocks = << <<1>> >>
    /\ ChaseParser_is_noise_line(doc[p].lines[2])
    /\ ~ChaseInnerBreak(doc[p].lines[2], frame[p].year)

\* the lines up to the line n that name a section: section-header lines
\* outside the legal spans, the 'transactions' headers left out
NamingLines(lines, n) ==
  {k \in 1..n : /\ ~InLegalSpan(lines, k)
                /\ ChaseParser_detect_section(lines[k]) \notin {None, "transactions"}}

\* the section named by the most recent of these lines, None without one
SectionNamed(lines, n) ==
  LET Named(ks) == IF ks = {} THEN None
                   ELSE ChaseParser_detect_section(lines[CHOOSE k \in ks : \A h \in ks : h <= k])
  IN Named(NamingLines(lines, n))

\* C25: in ChaseParser.parse a section-header line met while a block is open
\* closes the block: no block reaches a section-header line after its date
\* line; and the section context of every processed block is the section
\* named by the most recent section-header line, other than a 'transactions'
\* header, before its date line and outside the legal spans, or None
C25_BlockGetsTheSectionBeforeItsDateLine ==
  \A p \in Procs :
    doc[p].kind = "chase" =>
      /\ \A n \in 1..Len(BlocksOf(p)) :
           \A k \in 2..Len(BlocksOf(p)[n]) :
             \A h \in (BlocksOf(p)[n][1] + 1)..BlocksOf(p)[n][k] :
               ~ChaseParser_is_section_header(doc[p].lines[h])
      /\ \A n \in 1..Len(frame[p].blocks) :
           frame[p].contexts[n] = SectionNamed(doc[p].lines, frame[p].blocks[n][1] - 1)

\* a parse is over in which a section header closed the block of the line
\* before it, and the block got the section of the header before its date
C25_Witness ==
  \E p \in Procs :
    /\ doc[p].kind = "chase" /\ frame[p].pc = "done"
    /\ Len(doc[p].lines) = 3
    /\ ChaseParser_detect_section(doc[p].lines[1]) = "deposits"
    /\ ChaseParser_detect_section(doc[p].lines[3]) = "withdrawals"
    /\ frame[p].blocks = << <<2>> >>
    /\ frame[p].contexts = <<"deposits">>
    /\ current_section[p] = "withdrawals"

\* C26: in ChaseParser.parse a line detected as the generic 'transactions'
\* section is consumed without changing current_section: the step at such a
\* line leaves current_section as it was, in the outer loop it goes on to the
\* next line without opening a block, and current_section never is
\* 'transactions'
C26_TransactionsHeaderKeepsTheSection ==
  /\ [](\A p \in Procs : doc[p].kind = "chase" => current_section[p] # "transactions")
  /\ [][\A p \in Procs :
          (/\ CursorLine(p) # 0
           /\ ChaseParser_detect_section(doc[p].lines[CursorLine(p)]) = "transactions"
           /\ frame'[p] # frame[p]) =>
            /\ current_section'[p] = current_section[p]
            /\ frame[p].pc = "outer" =>
                 /\ frame'[p].pc = "outer"
                 /\ frame'[p].i = frame[p].i + 1
                 /\ frame'[p].block = <<>>]_vars

\* a parse is over in which a 'transactions' header stands between a deposits
\* header and a dated row, and the block of the row got the deposits context
C26_Witness ==
  \E p \in Procs :
    /\ doc[p].kind = "chase" /\ frame[p].pc = "done"
    /\ Len(doc[p].lines) = 3
    /\ ChaseParser_detect_section(doc[p].lines[1]) = "deposits"
    /\ ChaseParser_detect_section(doc[p].lines[2]) = "transactions"
    /\ frame[p].blocks = << <<3>> >>
    /\ frame[p].contexts = <<"deposits">>
    /\ current_section[p] = "deposits"

\* the row r of the /parse segmenter yields an amount
RowYieldsAmount(r) == to_amount_token(Strip(RowText(r)), app.right_x, r.words) # NoneF

\* the row r starts a block: parse_pdf finds a short date at its start or a
\* long date in it
RowStartsBlock(r) ==
  \/ DATE_MMDD_RE_match(Strip(RowText(r))) # <<>>
  \/ starts_with_long(Strip(RowText(r)), Lower(Strip(RowText(r))))

\* C27: in the row segmenter of /parse a block is closed as soon as an amount
\* is captured for it: between two rows no open block holds an amount or a
\* row that yields one; the step at a row that yields an amount leaves no
\* block open; a row that starts no block and meets no open block changes
\* nothing but the row index; and the transactions are at most as many as the
\* rows met that start a block
C27_AmountClosesTheBlock ==
  /\ [](app.pc = "rows" =>
          /\ app.current # <<>> =>
               /\ app.current[1].amount = NoneF
               /\ \A k \in 1..Len(app.current[1].rows) : ~RowYieldsAmount(app.current[1].rows[k])
          /\ Len(app.txs) <= Cardinality({k \in 1..(app.i - 1) : RowStartsBlock(app.rows[k])}))
  /\ [][(app.pc = "rows" /\ app.i <= Len(app.rows) /\ app' # app) =>
          /\ (RowYieldsAmount(app.rows[app.i]) => app'.current = <<>>)
          /\ (app.current = <<>> /\ ~RowStartsBlock(app.rows[app.i])) => app' = [app EXCEPT !.i = app.i + 1]]_vars

\* the loop over the rows is over: a date row without amount and a later row
\* with the amount were met, the second row closed the block and one
\* transaction was emitted
C27_Witness ==
  /\ app.pc = "rows" /\ app.i = 3 /\ Len(app.rows) = 2
  /\ RowStartsBlock(app.rows[1]) /\ ~RowYieldsAmount(app.rows[1])
  /\ ~RowStartsBlock(app.rows[2]) /\ RowYieldsAmount(app.rows[2])
  /\ Len(app.txs) = 1
  /\ app.current = <<>>

\* the inner loop of the invocation p has reached the end of the lines with
\* its block open
AtEndOfInput(p) == frame[p].pc = "inner" /\ frame[p].j > Len(doc[p].lines)

\* the open block of the invocation p has a resolvable amount and, for
\* ChaseParser, a usable description
OpenBlockResolves(p) ==
  LET Chase(b, text) ==
        /\ ChaseParser_extract_amount_from_block_improved(b, text) # NoneF
        /\ Len(Strip(ChaseParser_clean_description(text))) >= 3
      Generic(block_text) == pick_amount(RE_AMOUNT_findall(block_text), TRUE) # NoneF
      Block(b) == IF doc[p].kind = "chase" THEN Chase(b, JoinSp(b)) ELSE Generic(JoinSp(b))
  IN Block(BlockLines(doc[p].lines, frame[p].block))

MatchingRules(d) == {n \in 1..DIR_RULES_count : DIR_RULES_match(n, d)}

\* the description d in upper case is an explicit credit of PayPal: the
\* pattern \bPAYPAL.*CREDIT\b matches it
PayPalCredit(d) == GapSearch(d, "PAYPAL", <<"CREDIT">>)

\* C29: decide_direction returns the direction of the first rule of
\* DIR_RULES, in the order of the list, that matches the description, and
\* an explicit credit of PayPal is classified 'in'
C29_FirstRuleWinsAndPayPalCreditIsIn ==
  verdict.decide # Pending =>
    /\ MatchingRules(Upper(description)) # {} =>
         \E n \in MatchingRules(Upper(description)) :
           /\ \A m \in MatchingRules(Upper(description)) : n <= m
           /\ verdict.decide = Returned(DIR_RULES_direction(n))
    /\ PayPalCredit(Upper(description)) => verdict.decide = Returned("in")

\* C29, its first half alone: the first rule that matches decides
C29_FirstRuleWins ==
  verdict.decide # Pending =>
    (MatchingRules(Upper(description)) # {} =>
       \E n \in MatchingRules(Upper(description)) :
         /\ \A m \in MatchingRules(Upper(description)) : n <= m
         /\ verdict.decide = Returned(DIR_RULES_direction(n)))

\* C30: the segmentation loop of every parser terminates.  In
\* ChaseParser.parse, GenericParser.parse and ValleyParser.parse every
\* iteration of the outer loop leaves the line index greater than it found
\* it, whether it skips the line or closes a block; the inner index and the
\* outer index never decrease and never pass the line after the last; the
\* anchors of the blocks are distinct lines in rising order; and every
\* invocation returns
C30_SegmentationTerminates ==
  /\ [][\A p \in Procs :
          (frame[p].pc \in {"outer", "inner", "leave"} /\ frame'[p] # frame[p]) =>
            /\ frame[p].pc = "outer" => (frame'[p].pc = "outer" => frame'[p].i = frame[p].i + 1)
            /\ frame[p].pc = "outer" => (frame'[p].pc = "inner" => frame'[p].j = frame[p].i + 1)
            /\ frame[p].pc # "outer" => (frame'[p].pc = "outer" => frame'[p].i > frame[p].i)
            /\ frame[p].pc # "outer" => (frame'[p].pc # "outer" => frame'[p].j = frame[p].j + 1)
            /\ frame'[p].i >= frame[p].i
            /\ frame'[p].i <= Len(doc[p].lines) + 1]_vars
  /\ [](\A p \in Procs :
          \A n \in 1..Len(BlocksOf(p)) : \A m \in 1..(n - 1) : BlocksOf(p)[m][1] < BlocksOf(p)[n][1])
  /\ <>(\A p \in Procs : frame[p].pc = "done")

\* a parse of ValleyParser is over that closed two blocks, the second of
\* them without an amount
C30_Witness ==
  \E p \in Procs :
    /\ doc[p].kind = "valley" /\ frame[p].pc = "done"
    /\ Len(frame[p].blocks) = 2
    /\ Len(frame[p].results) = 1
    /\ frame[p].i = Len(doc[p].lines) + 1

====
